---------------------------- MODULE Spec2Model ----------------------------
(***************************************************************************)
(* State-machine model of the LDAP identity backend and the Kerberos auth  *)
(* backend in src/server/providers/ldap/ldap_id.c.                         *)
(*                                                                         *)
(* One action per handler / tevent callback.  A callback chain that the    *)
(* code runs synchronously (tevent_req_done / tevent_req_error invoking    *)
(* the registered callback at once) is one action; a suspension point      *)
(* (connect, bind, search, pipe read, cache write, tevent_req_post) ends   *)
(* an action.  talloc allocations are taken to succeed: branches that are  *)
(* entered only when an allocation returns NULL are not modelled.          *)
(***************************************************************************)
EXTENDS Integers, Sequences, FiniteSets, TLC

(* ------------------------------ bounds -------------------------------- *)
\* number of account-info requests the front-end hands in
MaxReq == 2
\* last value of the wall clock time(NULL)
MaxTime == 2
\* largest configured offline_timeout
MaxTimeout == 1

\* PAM requests handed to the auth backend
MaxPam == 2
\* rows the local store returns for one user name
MaxRows == 2
\* modification stamps the directory reports, 1..MaxStamp
MaxStamp == 2
\* the enum_refresh_timeout option, in seconds
MaxRefresh == 1
MaxMap == 3
MaxUpn == 4
MaxTok == 1
Reqs == 1..MaxReq
\* sdap handles: one per account-info request's connect attempt, and the one
\* of the enumeration task (its phases run one after the other and each frees
\* ctx->gsh before it connects, so the task owns at most one handle at a time)
EnumSession == MaxReq + 1
Sessions == Reqs \cup {EnumSession}
Pams == 1..MaxPam
Times == 0..MaxTime

(* ----------------------------- constants ------------------------------ *)
NULL == "NULL"
EOK == "EOK"
EAGAIN == "EAGAIN"
EINVAL == "EINVAL"
EACCES == "EACCES"
EIO == "EIO"
ETIMEDOUT == "ETIMEDOUT"

\* errno values a failed connect, bind or search hands back (sdap_*_recv)
SubErrs == {EIO, ETIMEDOUT}
\* enum sdap_result of a bind that completed
AuthResults == {"SDAP_AUTH_SUCCESS", "SDAP_AUTH_FAILED"}

EntryTypes == {"BE_REQ_USER", "BE_REQ_GROUP", "BE_REQ_INITGROUPS", "BE_REQ_OTHER"}
FilterTypes == {"BE_FILTER_NAME", "BE_FILTER_IDNUM", "BE_FILTER_OTHER"}
AttrTypes == {"BE_ATTR_CORE", "BE_ATTR_ALL"}
\* filter values, as character strings
FilterValues == { <<"*">>, <<"a", "l">>, <<"a", "*", "e">> }

\* struct be_acct_req
AcctReqs ==
    [entry_type : EntryTypes, filter_type : FilterTypes,
     attr_type : AttrTypes, filter_value : FilterValues]

\* ctx->opts->user_map / group_map: slot -> directory attribute (NULL: unmapped)
user_map ==
    << [at |-> "SDAP_OC_USER", name |-> "posixAccount"],
       [at |-> "SDAP_AT_USER_NAME", name |-> "uid"],
       [at |-> "SDAP_AT_USER_PWD", name |-> NULL],
       [at |-> "SDAP_AT_USER_UID", name |-> "uidNumber"],
       [at |-> "SDAP_AT_USER_MODSTAMP", name |-> "modifyTimestamp"] >>

group_map ==
    << [at |-> "SDAP_OC_GROUP", name |-> "posixGroup"],
       [at |-> "SDAP_AT_GROUP_NAME", name |-> "cn"],
       [at |-> "SDAP_AT_GROUP_PWD", name |-> NULL],
       [at |-> "SDAP_AT_GROUP_GID", name |-> "gidNumber"],
       [at |-> "SDAP_AT_GROUP_MODSTAMP", name |-> "modifyTimestamp"] >>

\* map[slot].name
map_name(map, slot) ==
    map[CHOOSE i \in 1..Len(map) : map[i].at = slot].name

\* the request payload of a slot no request was handed to yet
NoAr ==
    [entry_type |-> NULL, filter_type |-> NULL, attr_type |-> NULL,
     filter_value |-> <<>>]

(* ------------------------------- state -------------------------------- *)
VARIABLES
    now,             \* time(NULL)
    offline,         \* sdap_id_ctx.offline
    went_offline,    \* sdap_id_ctx.went_offline
    offline_timeout, \* ctx->opts->offline_timeout
    gsh,             \* sdap_id_ctx.gsh: 0 (NULL) or the id of a session
    sh,              \* the sdap_handle each operation's connect attempt creates
    op,              \* the tevent request of each account-info request
    fn,              \* invocations of each request's completion callback
    hist,            \* per request: what it started, and the replies it got
    oreq,            \* be_online_req.online as the last check_online request got it
    be_offline,      \* be_ctx's offline flag, behind be_is_offline/be_mark_offline
    be_went_offline, \* be_ctx's time of the last be_mark_offline
    krb5_ctx,        \* struct krb5_ctx as sssm_krb5_auth_init filled it
    cache_credentials, \* be_ctx->domain->cache_credentials
    pam,             \* each PAM request: its pam_data and where its pipeline waits
    fds,             \* each PAM request's pipe ends in the daemon
    child,           \* the process fork() created for each PAM request
    pfn,             \* invocations of each PAM request's be_req->fn in the daemon
    kr,              \* a krb5child_req and the buffer create_send_buffer built
    enumerate,       \* ctx->be->domain->enumerate
    last_run,        \* sdap_id_ctx.last_run
    max_user_timestamp,  \* sdap_id_ctx.max_user_timestamp, 0 for NULL
    max_group_timestamp, \* sdap_id_ctx.max_group_timestamp, 0 for NULL
    enum_task,       \* due time of the ldap_id_enumerate timer, NoTimer if none
    ecycle,          \* the enumeration request in flight and its watchdog
    elog,            \* what the enumeration cycles did so far
    finalize         \* invocations of the finalize request's fn

auth_vars == <<be_offline, be_went_offline, krb5_ctx, cache_credentials, pam,
               fds, child, pfn, kr>>

enum_vars == <<enumerate, last_run, max_user_timestamp, max_group_timestamp,
               enum_task, ecycle, elog>>

vars == <<now, offline, went_offline, offline_timeout, gsh, sh, op, fn, hist,
          oreq, auth_vars, enum_vars, finalize>>

ShInit == [st |-> "none", connected |-> FALSE, bound |-> FALSE, installed |-> FALSE]
\* pc: idle (no request yet), queued (the front-end built the be_req), then the
\* suspension point the request waits at, then done (callback fired, state freed)
OpInit == [pc |-> "idle", ar |-> NoAr, kind |-> NULL, filter |-> <<>>,
           name |-> <<>>, attrs |-> <<>>, error |-> EOK, search |-> 0]
OpDoneState == [OpInit EXCEPT !.pc = "done"]
FnInit == [calls |-> 0, ret |-> NULL, err |-> NULL]
HistInit == [connects |-> 0, binds |-> 0, searches |-> 0, unbound |-> FALSE,
             fail_at |-> NULL, sub_ret |-> EOK]

(* ------------------------- Kerberos auth backend ----------------------- *)
PAM_SUCCESS == "PAM_SUCCESS"
PAM_SYSTEM_ERR == "PAM_SYSTEM_ERR"
PAM_AUTH_ERR == "PAM_AUTH_ERR"
PAM_AUTHINFO_UNAVAIL == "PAM_AUTHINFO_UNAVAIL"
PAM_ENV_ITEM == "PAM_ENV_ITEM"
PAM_USER_INFO == "PAM_USER_INFO"
SSSD_REALM == "SSSD_REALM"
SSSD_KDC == "SSSD_KDC"
PamCmds == {"SSS_PAM_AUTHENTICATE", "SSS_PAM_CHAUTHTOK", "SSS_PAM_ACCT_MGMT"}
\* pd->user, pd->authtok and pd->newauthtok of the requests the front-end sends
\* the zero byte that ends a C string
NUL == "\\0"
pd_user == "alice"
pd_authtok == <<"o", "l", "d">>
pd_newauthtok == <<"n", "e", "w">>

\* 3*sizeof(int32_t): status, type and length words of the helper's reply
ReplyHeader == 12
\* what read() on the pipe can hand to read_pipe_done: -1 with an errno, or a
\* number of bytes; from 12 bytes on the first three words are status, type
\* and the length of the message that follows
ReplyLens == {0, 8, ReplyHeader, ReplyHeader + 2}
ReplyStatus == {PAM_SUCCESS, PAM_AUTH_ERR, PAM_AUTHINFO_UNAVAIL}
Replies ==
    {[len |-> -1, status |-> NULL, type |-> NULL, msg_len |-> 0]}
    \cup {[len |-> l, status |-> NULL, type |-> NULL, msg_len |-> 0] :
              l \in {x \in ReplyLens : x < ReplyHeader}}
    \cup {[len |-> l, status |-> st, type |-> PAM_USER_INFO, msg_len |-> m] :
              l \in {x \in ReplyLens : x >= ReplyHeader},
              st \in ReplyStatus, m \in {-1, 0, 2}}

\* the configurations sssm_krb5_auth_init can read from the confdb
Krb5Configs ==
    [kdcip : {NULL, "192.0.2.1"}, realm : {NULL, "EXAMPLE.COM"},
     try_simple_upn : BOOLEAN]

PamInit == [pc |-> "idle", cmd |-> NULL, upn |-> NULL, pam_status |-> NULL,
            resp |-> <<>>, password |-> NULL, lookup |-> NULL,
            spawn |-> NULL, cache_ret |-> NULL]
FdsInit == [from_rd |-> "none", from_wr |-> "none", to_rd |-> "none",
            to_wr |-> "none"]
ChildInit == [st |-> "none", calls |-> 0, status |-> NULL]
PfnInit == [calls |-> 0, status |-> NULL]

\* no request for the helper child has been put together
KrInit == [cmd |-> NULL, upn |-> <<>>, authtok |-> <<>>, newauthtok |-> <<>>,
           buf |-> [ret |-> NULL, size |-> 0, data |-> <<>>]]

\* the auth backend before any PAM request, with no krb5 option configured
AuthInit ==
    /\ be_offline = FALSE
    /\ be_went_offline = 0
    /\ pam = [p \in Pams |-> PamInit]
    /\ fds = [p \in Pams |-> FdsInit]
    /\ child = [p \in Pams |-> ChildInit]
    /\ pfn = [p \in Pams |-> PfnInit]
    /\ kr = KrInit

AuthDefaults ==
    /\ krb5_ctx = [kdcip |-> NULL, realm |-> NULL, try_simple_upn |-> FALSE]
    /\ cache_credentials = FALSE

(* ------------------------- enumeration task state ---------------------- *)
NoTimer == -1
enum_refresh_timeout == MaxRefresh
Stamps == 0..MaxStamp
EcycleInit == [pc |-> "none", phase |-> NULL, watchdog |-> NoTimer,
               filter |-> <<>>, attrs |-> <<>>, search |-> 0]
ElogInit == [cycles |-> 0, result |-> NULL, ended |-> 0,
             user_wm |-> 0, group_wm |-> 0, usearch |-> 0, gsearch |-> 0,
             udone |-> NULL, phase |-> NULL, t |-> 0, old |-> 0]

\* an init that arms the timer without looking at the option
sssm_ldap_init_always(en, t) ==
    [last_run |-> t, enum_task |-> t]

\* the timer sssm_ldap_init arms: the first cycle at once, or none
sssm_ldap_init(en, t) ==
    IF en THEN [last_run |-> t, enum_task |-> t]
    ELSE [last_run |-> 0, enum_task |-> NoTimer]

\* the enumeration state sssm_ldap_init leaves for domain option en
EnumInit(en) ==
    /\ enumerate = en
    /\ last_run = sssm_ldap_init(en, now).last_run
    /\ enum_task = sssm_ldap_init(en, now).enum_task
    /\ max_user_timestamp = 0
    /\ max_group_timestamp = 0
    /\ ecycle = EcycleInit
    /\ elog = ElogInit

IdInit ==
    /\ gsh = 0
    /\ sh = [r \in Sessions |-> ShInit]
    /\ op = [r \in Reqs |-> OpInit]
    /\ fn = [r \in Reqs |-> FnInit]
    /\ hist = [r \in Reqs |-> HistInit]
    /\ oreq = NULL
    /\ finalize = FnInit

\* sssm_ldap_init: talloc_zero leaves offline false, went_offline 0, gsh NULL
Init ==
    /\ AuthInit /\ AuthDefaults
    /\ now = 0
    /\ offline = FALSE
    /\ went_offline = 0
    /\ offline_timeout = MaxTimeout
    /\ IdInit
    /\ EnumInit(FALSE)

(* ------------------------- online-state tracker ------------------------ *)
\* a tracker whose window closes one second early
is_offline_strict ==
    IF went_offline + offline_timeout <= now THEN FALSE ELSE offline

\* is_offline(ctx)
is_offline ==
    IF went_offline + offline_timeout < now THEN FALSE ELSE offline

\* sdap_req_done(req, ret, err): req->fn(req, ret, err)
sdap_req_done(f, ret, err) ==
    [calls |-> f.calls + 1, ret |-> ret, err |-> err]

\* sdap_check_online: reports the tracker's state; completes with EOK
sdap_check_online ==
    /\ oreq' = IF is_offline THEN "MOD_OFFLINE" ELSE "MOD_ONLINE"
    /\ UNCHANGED auth_vars
    /\ UNCHANGED enum_vars
    /\ UNCHANGED finalize
    /\ UNCHANGED <<now, offline, went_offline, offline_timeout, gsh, sh, op, fn,
                   hist>>

\* the wall clock advances
Tick ==
    /\ now < MaxTime
    /\ now' = now + 1
    /\ UNCHANGED auth_vars
    /\ UNCHANGED enum_vars
    /\ UNCHANGED finalize
    /\ UNCHANGED <<offline, went_offline, offline_timeout, gsh, sh, op, fn, hist,
                   oreq>>

(* -------------------------- attribute resolver ------------------------- *)
RECURSIVE map_names(_, _)
\* the loop of build_attrs_from_map over slots i..size-1: unmapped slots skipped
map_names(map, i) ==
    IF i > Len(map) THEN <<>>
    ELSE IF map[i].name # NULL
         THEN <<map[i].name>> \o map_names(map, i + 1)
         ELSE map_names(map, i + 1)

\* a builder whose loop starts at the object-class slot
build_attrs_from_map_all_slots(map) ==
    <<"objectClass">> \o map_names(map, 1)

\* build_attrs_from_map: "objectClass", then the mapped names of the slots after
\* the first (the C array's slot 0 is slot 1 here)
build_attrs_from_map(map) ==
    <<"objectClass">> \o map_names(map, 2)

(* --------------------------- connection manager ------------------------ *)
\* connected(ctx)
connected ==
    IF gsh # 0 THEN sh[gsh].connected ELSE FALSE

\* a bind callback that forgets to look at the bind's result
sdap_id_bind_done_noresult(ret, result) ==
    IF ret # EOK THEN ret ELSE EOK

\* sdap_id_bind_done: the state the connect request ends in (EOK: done)
sdap_id_bind_done(ret, result) ==
    IF ret # EOK THEN ret
    ELSE IF result # "SDAP_AUTH_SUCCESS" THEN EACCES
    ELSE EOK

\* a recv that reports every failure as EIO
sdap_id_connect_recv_eio(error) ==
    IF error # EOK
    THEN [ret |-> EIO, install |-> FALSE]
    ELSE [ret |-> EOK, install |-> TRUE]

\* sdap_id_connect_recv: what it returns, and whether it stores state->sh in
\* ctx->gsh
sdap_id_connect_recv(error) ==
    IF error # EOK
    THEN [ret |-> error, install |-> FALSE]
    ELSE [ret |-> EOK, install |-> TRUE]

(* ------------------------- completion callbacks ------------------------ *)
\* a callback whose error branch does not return
users_get_done_noreturn(f, error) ==
    IF error # EOK
    THEN sdap_req_done(sdap_req_done(f, error, "Enum Users Failed"), EOK, NULL)
    ELSE sdap_req_done(f, EOK, NULL)

\* users_get_done
users_get_done(f, error) ==
    sdap_req_done(f, error, IF error # EOK THEN "Enum Users Failed" ELSE NULL)

\* a callback that reports every failure as EIO
groups_get_done_eio(f, error) ==
    sdap_req_done(f, IF error # EOK THEN EIO ELSE EOK,
                  IF error # EOK THEN "Enum Groups Failed" ELSE NULL)

\* groups_get_done
groups_get_done(f, error) ==
    sdap_req_done(f, error, IF error # EOK THEN "Enum Groups Failed" ELSE NULL)

\* groups_by_user_done
groups_by_user_done(f, error) ==
    sdap_req_done(f, error, IF error # EOK THEN "Init Groups Failed" ELSE NULL)

\* the callback sdap_get_account_info registered on the request of this kind
op_callback(kind, f, error) ==
    CASE kind = "users" -> users_get_done(f, error)
      [] kind = "groups" -> groups_get_done(f, error)
      [] kind = "initgr" -> groups_by_user_done(f, error)

(* ---------------------------- ID dispatcher ---------------------------- *)
\* strchr(v, '*') != NULL
has_star(v) ==
    \E i \in 1..Len(v) : v[i] = "*"

\* talloc_asprintf(state, "(&(%s=%s)(objectclass=%s))", attr_name, name, oc)
lookup_filter(attr_name, name, oc) ==
    <<"(&(", attr_name, "=">> \o name \o <<")(objectclass=", oc, "))">>

\* users_get_send up to the connected() test: the filter and the attribute list,
\* or the error the request is posted with
users_get_send(name, filter_type) ==
    IF filter_type \notin {"BE_FILTER_NAME", "BE_FILTER_IDNUM"}
    THEN [ret |-> EINVAL, filter |-> <<>>, name |-> <<>>, attrs |-> <<>>]
    ELSE [ret |-> EOK,
          filter |-> lookup_filter(
              IF filter_type = "BE_FILTER_NAME"
              THEN map_name(user_map, "SDAP_AT_USER_NAME")
              ELSE map_name(user_map, "SDAP_AT_USER_UID"),
              name, map_name(user_map, "SDAP_OC_USER")),
          name |-> <<>>,
          attrs |-> build_attrs_from_map(user_map)]

\* groups_get_send up to the connected() test
groups_get_send(name, filter_type) ==
    IF filter_type \notin {"BE_FILTER_NAME", "BE_FILTER_IDNUM"}
    THEN [ret |-> EINVAL, filter |-> <<>>, name |-> <<>>, attrs |-> <<>>]
    ELSE [ret |-> EOK,
          filter |-> lookup_filter(
              IF filter_type = "BE_FILTER_NAME"
              THEN map_name(group_map, "SDAP_AT_GROUP_NAME")
              ELSE map_name(group_map, "SDAP_AT_GROUP_GID"),
              name, map_name(group_map, "SDAP_OC_GROUP")),
          name |-> <<>>,
          attrs |-> build_attrs_from_map(group_map)]

\* groups_by_user_send up to the connected() test: no filter, the user's name
groups_by_user_send(name) ==
    [ret |-> EOK, filter |-> <<>>, name |-> name,
     attrs |-> build_attrs_from_map(group_map)]

\* the switch of sdap_get_account_info on ar->entry_type: complete the request
\* at once (act "done") or start the operation act
acct_switch(ar) ==
    CASE ar.entry_type = "BE_REQ_USER" ->
           IF ar.filter_value = <<"*">>
           THEN [act |-> "done", ret |-> EOK, err |-> "Success"]
           ELSE [act |-> "users", ret |-> EOK, err |-> "Unknown Error"]
      [] ar.entry_type = "BE_REQ_GROUP" ->
           IF ar.filter_value = <<"*">>
           THEN [act |-> "done", ret |-> EOK, err |-> "Success"]
           ELSE [act |-> "groups", ret |-> EOK, err |-> "Unknown Error"]
      [] ar.entry_type = "BE_REQ_INITGROUPS" ->
           IF ar.filter_type # "BE_FILTER_NAME"
           THEN [act |-> "done", ret |-> EINVAL, err |-> "Invalid filter type"]
           ELSE IF ar.attr_type # "BE_ATTR_CORE"
           THEN [act |-> "done", ret |-> EINVAL, err |-> "Invalid attr type"]
           ELSE IF has_star(ar.filter_value)
           THEN [act |-> "done", ret |-> EINVAL, err |-> "Invalid filter value"]
           ELSE [act |-> "initgr", ret |-> EOK, err |-> "Unknown Error"]
      [] OTHER ->
           [act |-> "done", ret |-> EINVAL, err |-> "Invalid request type"]

\* a dispatcher that validates the payload before it looks at the tracker
sdap_get_account_info_validate_first(off, ar) ==
    IF acct_switch(ar).act = "done" THEN acct_switch(ar)
    ELSE IF off THEN [act |-> "done", ret |-> EAGAIN, err |-> "Offline"]
    ELSE acct_switch(ar)

\* a dispatcher that serves a wildcard request by a directory search
sdap_get_account_info_enum_on_demand(off, ar) ==
    IF off THEN [act |-> "done", ret |-> EAGAIN, err |-> "Offline"]
    ELSE IF acct_switch(ar).err = "Success"
    THEN [act |-> IF ar.entry_type = "BE_REQ_USER" THEN "users" ELSE "groups",
          ret |-> EOK, err |-> "Unknown Error"]
    ELSE acct_switch(ar)

\* a dispatcher that tests an initgroups request's attr_type first
sdap_get_account_info_attr_first(off, ar) ==
    IF off THEN [act |-> "done", ret |-> EAGAIN, err |-> "Offline"]
    ELSE IF ar.entry_type = "BE_REQ_INITGROUPS" /\ ar.attr_type # "BE_ATTR_CORE"
    THEN [act |-> "done", ret |-> EINVAL, err |-> "Invalid attr type"]
    ELSE acct_switch(ar)

\* sdap_get_account_info: the offline test comes first, then the switch
sdap_get_account_info(off, ar) ==
    IF off THEN [act |-> "done", ret |-> EAGAIN, err |-> "Offline"]
    ELSE acct_switch(ar)

\* the *_send function sdap_get_account_info calls for operation act
op_send(act, ar) ==
    CASE act = "users" -> users_get_send(ar.filter_value, ar.filter_type)
      [] act = "groups" -> groups_get_send(ar.filter_value, ar.filter_type)
      [] act = "initgr" -> groups_by_user_send(ar.filter_value)

\* the tail shared by users_get_send, groups_get_send and groups_by_user_send:
\* not connected: drop the stale handle and connect; connected: search on gsh
connect_or_search(r, kind, s) ==
    IF ~connected
    THEN /\ gsh' = 0
         /\ sh' = [x \in Sessions |->
                     IF x = r THEN [ShInit EXCEPT !.st = "connecting"]
                     ELSE IF x = gsh THEN [sh[x] EXCEPT !.st = "freed"]
                     ELSE sh[x]]
         /\ op' = [op EXCEPT ![r] = [pc |-> "connecting", ar |-> @.ar,
                                     kind |-> kind, filter |-> s.filter,
                                     name |-> s.name, attrs |-> s.attrs,
                                     error |-> EOK, search |-> 0]]
         /\ hist' = [hist EXCEPT ![r].connects = @ + 1]
         /\ UNCHANGED fn
    ELSE /\ op' = [op EXCEPT ![r] = [pc |-> "searching", ar |-> @.ar,
                                     kind |-> kind, filter |-> s.filter,
                                     name |-> s.name, attrs |-> s.attrs,
                                     error |-> EOK, search |-> gsh]]
         /\ hist' = [hist EXCEPT ![r].searches = @ + 1,
                                 ![r].unbound = ~(sh[gsh].st = "open" /\ sh[gsh].bound)]
         /\ UNCHANGED <<gsh, sh, fn>>

\* the front-end builds request r (struct be_req with its be_acct_req); it
\* hands its requests to the handler one at a time
Submit(r) ==
    \E ar \in AcctReqs :
        /\ op[r].pc = "idle"
        /\ \A q \in Reqs : op[q].pc # "queued" /\ (q < r => op[q].pc # "idle")
        /\ op' = [op EXCEPT ![r].pc = "queued", ![r].ar = ar]
        /\ UNCHANGED auth_vars
        /\ UNCHANGED enum_vars
        /\ UNCHANGED finalize
        /\ UNCHANGED <<now, offline, went_offline, offline_timeout, gsh, sh, fn,
                       hist, oreq>>

\* the handler runs on request r: sdap_get_account_info and the *_send it calls
GetAccountInfo(r) ==
    /\ op[r].pc = "queued"
    /\ LET ar == op[r].ar
           d == sdap_get_account_info(is_offline, ar)
       IN
       IF d.act = "done"
       THEN /\ fn' = [fn EXCEPT ![r] = sdap_req_done(fn[r], d.ret, d.err)]
            /\ op' = [op EXCEPT ![r] = OpDoneState]
            /\ UNCHANGED <<gsh, sh, hist>>
       ELSE LET s == op_send(d.act, ar) IN
            IF s.ret # EOK
            THEN \* fail: tevent_req_error, tevent_req_post
                 /\ op' = [op EXCEPT ![r].pc = "posted", ![r].kind = d.act,
                                     ![r].error = s.ret]
                 /\ UNCHANGED <<gsh, sh, fn, hist>>
            ELSE connect_or_search(r, d.act, s)
    /\ UNCHANGED auth_vars
    /\ UNCHANGED enum_vars
    /\ UNCHANGED finalize
    /\ UNCHANGED <<now, offline, went_offline, offline_timeout, oreq>>

\* the request of r fails with error: tevent_req_error runs the callback
\* sdap_get_account_info registered, which completes the front-end's request
op_fail(r, error) ==
    /\ op' = [op EXCEPT ![r] = OpDoneState]
    /\ fn' = [fn EXCEPT ![r] = op_callback(op[r].kind, fn[r], error)]

\* sdap_id_connect_done: the connect of r's attempt came back with ret.
\* Failure runs *_connect_done, whose sdap_id_connect_recv hands the error on.
\* Success starts the bind (sdap_auth_send) on the new, unbound handle.
ConnectDone(r) ==
    \E ret \in {EOK} \cup SubErrs :
        /\ op[r].pc = "connecting"
        /\ IF ret # EOK
           THEN /\ op_fail(r, sdap_id_connect_recv(ret).ret)
                /\ sh' = [sh EXCEPT ![r].st = "freed"]
                /\ hist' = [hist EXCEPT ![r].fail_at = "connect",
                                        ![r].sub_ret = ret]
           ELSE /\ op' = [op EXCEPT ![r].pc = "binding"]
                /\ sh' = [sh EXCEPT ![r].st = "open", ![r].connected = TRUE]
                /\ hist' = [hist EXCEPT ![r].binds = @ + 1]
                /\ UNCHANGED fn
        /\ UNCHANGED auth_vars
        /\ UNCHANGED enum_vars
        /\ UNCHANGED finalize
        /\ UNCHANGED <<now, offline, went_offline, offline_timeout, gsh,
                       oreq>>

\* sdap_id_bind_done, then users_get_connect_done / groups_get_connect_done /
\* groups_by_user_connect_done: sdap_id_connect_recv installs the handle, the
\* connect request is freed (with the handle, unless it was installed), and on
\* success the search is sent on ctx->gsh
BindDone(r) ==
    \E ret \in {EOK} \cup SubErrs, result \in AuthResults :
        /\ op[r].pc = "binding"
        /\ LET rv == sdap_id_connect_recv(sdap_id_bind_done(ret, result))
               isbound == ret = EOK /\ result = "SDAP_AUTH_SUCCESS"
               g == IF rv.install THEN r ELSE gsh
               nsh == [sh EXCEPT ![r].bound = isbound,
                                 ![r].installed = rv.install,
                                 ![r].st = IF rv.install THEN "open" ELSE "freed"]
           IN
           /\ gsh' = g
           /\ sh' = nsh
           /\ IF rv.ret # EOK
              THEN /\ op_fail(r, rv.ret)
                   /\ hist' = [hist EXCEPT ![r].fail_at = "bind",
                                           ![r].sub_ret = ret]
              ELSE /\ op' = [op EXCEPT ![r].pc = "searching", ![r].search = g]
                   /\ hist' = [hist EXCEPT
                                 ![r].searches = @ + 1,
                                 ![r].unbound = ~(nsh[g].st = "open" /\ nsh[g].bound),
                                 ![r].fail_at = IF isbound THEN @ ELSE "bind",
                                 ![r].sub_ret = ret]
                   /\ UNCHANGED fn
        /\ UNCHANGED auth_vars
        /\ UNCHANGED enum_vars
        /\ UNCHANGED finalize
        /\ UNCHANGED <<now, offline, went_offline, offline_timeout, oreq>>

\* users_get_op_done / groups_get_op_done / groups_by_user_op_done: the search
\* of r came back with ret; either way the request's callback runs
OpDone(r) ==
    \E ret \in {EOK} \cup SubErrs :
        /\ op[r].pc = "searching"
        /\ op_fail(r, ret)
        /\ hist' = [hist EXCEPT ![r].fail_at = IF ret # EOK THEN "search" ELSE @,
                                ![r].sub_ret = ret]
        /\ UNCHANGED auth_vars
        /\ UNCHANGED enum_vars
        /\ UNCHANGED finalize
        /\ UNCHANGED <<now, offline, went_offline, offline_timeout, gsh, sh,
                       oreq>>

\* the immediate event of tevent_req_post fires: the request's callback runs
\* with the error the request was posted with
PostedDone(r) ==
    /\ op[r].pc = "posted"
    /\ op_fail(r, op[r].error)
    /\ UNCHANGED auth_vars
    /\ UNCHANGED enum_vars
    /\ UNCHANGED finalize
    /\ UNCHANGED <<now, offline, went_offline, offline_timeout, gsh, sh, hist,
                   oreq>>

\* the directory codec notices that the transport of session s is gone
Disconnect(s) ==
    /\ sh[s].st = "open"
    /\ sh[s].connected
    /\ sh' = [sh EXCEPT ![s].connected = FALSE]
    /\ UNCHANGED auth_vars
    /\ UNCHANGED enum_vars
    /\ UNCHANGED finalize
    /\ UNCHANGED <<now, offline, went_offline, offline_timeout, gsh, op, fn,
                   hist, oreq>>

(* ---------------------------- specifications --------------------------- *)
NextId ==
    \/ \E r \in Reqs : Submit(r)
    \/ \E r \in Reqs : GetAccountInfo(r)
    \/ \E r \in Reqs : ConnectDone(r)
    \/ \E r \in Reqs : BindDone(r)
    \/ \E r \in Reqs : OpDone(r)
    \/ \E r \in Reqs : PostedDone(r)
    \/ \E s \in Reqs : Disconnect(s)
    \/ sdap_check_online

Next == NextId

\* the identity provider as sssm_ldap_init leaves it
Spec == Init /\ [][Next]_vars

\* The tracker's fields as inputs: nothing in this file writes ctx->offline or
\* ctx->went_offline, so the handlers' behaviour when they hold other values is
\* checked from every value of the two fields, with the clock running.
InitTracker ==
    /\ AuthInit /\ AuthDefaults
    /\ offline \in BOOLEAN
    /\ went_offline \in Times
    /\ now \in went_offline..MaxTime
    /\ offline_timeout \in 0..MaxTimeout
    /\ IdInit
    /\ EnumInit(FALSE)

\* a front-end that waits for each request's callback before the next request
SubmitAlone(r) ==
    /\ \A q \in Reqs : op[q].pc \in {"idle", "done"}
    /\ Submit(r)

NextTracker ==
    \/ \E r \in Reqs : SubmitAlone(r)
    \/ \E r \in Reqs : GetAccountInfo(r)
    \/ \E r \in Reqs : ConnectDone(r)
    \/ \E r \in Reqs : BindDone(r)
    \/ \E r \in Reqs : OpDone(r)
    \/ \E r \in Reqs : PostedDone(r)
    \/ \E s \in Reqs : Disconnect(s)
    \/ sdap_check_online
    \/ Tick

SpecTracker == InitTracker /\ [][NextTracker]_vars

(* --------------------------- enumeration task -------------------------- *)
tracker_vars == <<now, offline, went_offline, offline_timeout>>

\* the filter enum_users_send / enum_groups_send build for watermark wm
\* a filter that asks for stamps at or after the watermark, the entry with
\* the watermark's own stamp included
enum_filter_inclusive(name, oc, modstamp, wm) ==
    IF wm # 0
    THEN <<"(&(", name, "=*)(objectclass=", oc, ")(", modstamp, ">=", wm,
           "))">>
    ELSE <<"(&(", name, "=*)(objectclass=", oc, "))">>

enum_filter(name, oc, modstamp, wm) ==
    IF wm # 0
    THEN <<"(&(", name, "=*)(objectclass=", oc, ")(", modstamp, ">=", wm,
           ")(!(", modstamp, "=", wm, ")))">>
    ELSE <<"(&(", name, "=*)(objectclass=", oc, "))">>

\* enum_users_send: filter and attribute list
enum_users_send(wm) ==
    [filter |-> enum_filter(map_name(user_map, "SDAP_AT_USER_NAME"),
                            map_name(user_map, "SDAP_OC_USER"),
                            map_name(user_map, "SDAP_AT_USER_MODSTAMP"), wm),
     attrs |-> build_attrs_from_map(user_map)]

\* enum_groups_send: filter and attribute list
enum_groups_send(wm) ==
    [filter |-> enum_filter(map_name(group_map, "SDAP_AT_GROUP_NAME"),
                            map_name(group_map, "SDAP_OC_GROUP"),
                            map_name(group_map, "SDAP_AT_GROUP_MODSTAMP"), wm),
     attrs |-> build_attrs_from_map(group_map)]

\* ldap_id_enumerate_set_timer(ctx, tv): the due time of the next cycle
ldap_id_enumerate_set_timer(tv) ==
    tv + enum_refresh_timeout

\* the due time of the watchdog ldap_id_enumerate adds at time t
enum_watchdog_twice(t) ==
    t + 2 * enum_refresh_timeout

enum_watchdog(t) ==
    t + enum_refresh_timeout

\* an op_done that keeps the larger of watermark and reported stamp
enum_op_done_newer(wm, t) ==
    IF t > wm THEN t ELSE wm

\* an op_done that never touches the watermark
enum_op_done_keep(wm, t) ==
    wm

\* enum_users_op_done / enum_groups_op_done on success: the watermark after a
\* search that reported stamp t (0: none)
enum_op_done(wm, t) ==
    IF t # 0 THEN t ELSE wm

\* the second half of enum_users_send / enum_groups_send for phase ph of the
\* cycle whose watchdog is due at wd: connect if ctx->gsh is not connected
\* (releasing it first), else search on it
enum_phase_send(ph, s, wd) ==
    IF ~connected
    THEN /\ gsh' = 0
         /\ sh' = [x \in Sessions |->
                     IF x = EnumSession THEN [ShInit EXCEPT !.st = "connecting"]
                     ELSE IF x = gsh THEN [sh[x] EXCEPT !.st = "freed"]
                     ELSE sh[x]]
         /\ ecycle' = [pc |-> "connecting", phase |-> ph, watchdog |-> wd,
                       filter |-> s.filter, attrs |-> s.attrs, search |-> 0]
    ELSE /\ ecycle' = [pc |-> "searching", phase |-> ph, watchdog |-> wd,
                       filter |-> s.filter, attrs |-> s.attrs, search |-> gsh]
         /\ UNCHANGED <<gsh, sh>>

\* the searches the step into phase ph has issued, given whether it searched
enum_count(log, ph, searching) ==
    IF ~searching THEN log
    ELSE IF ph = "users" THEN [log EXCEPT !.usearch = @ + 1]
    ELSE [log EXCEPT !.gsearch = @ + 1]

\* ldap_id_enumerate: the enumeration timer fires. last_run is the time the
\* handler is called with; ldap_id_enumerate_send starts the users phase and
\* the watchdog is added to the new request
Enumerate ==
    /\ enum_task # NoTimer
    /\ enum_task <= now
    /\ last_run' = now
    /\ enum_task' = NoTimer
    /\ enum_phase_send("users", enum_users_send(max_user_timestamp),
                       enum_watchdog(now))
    /\ elog' = enum_count([elog EXCEPT !.cycles = @ + 1, !.result = NULL,
                                       !.udone = NULL,
                                       !.user_wm = max_user_timestamp,
                                       !.group_wm = max_group_timestamp,
                                       !.usearch = 0, !.gsearch = 0],
                          "users", connected)
    /\ UNCHANGED <<finalize, tracker_vars, op, fn, hist, oreq, auth_vars, enumerate,
                   max_user_timestamp, max_group_timestamp>>

\* the fail: labels of ldap_id_enum_users_done and ldap_id_enum_groups_done:
\* the next cycle is set from the current time and the request is freed
enum_fail ==
    /\ enum_task' = ldap_id_enumerate_set_timer(now)
    /\ ecycle' = EcycleInit
    /\ elog' = [elog EXCEPT !.result = IF ecycle.phase = "users"
                                       THEN "users_failed" ELSE "groups_failed",
                            !.udone = IF ecycle.phase = "users"
                                      THEN "failed" ELSE @,
                            !.ended = now]

\* sdap_id_connect_done for the task's connect attempt
EnumConnectDone ==
    \E ret \in {EOK} \cup SubErrs :
        /\ ecycle.pc = "connecting"
        /\ IF sdap_id_connect_recv(ret).ret # EOK
           THEN /\ enum_fail
                /\ sh' = [sh EXCEPT ![EnumSession].st = "freed"]
           ELSE /\ ecycle' = [ecycle EXCEPT !.pc = "binding"]
                /\ sh' = [sh EXCEPT ![EnumSession].st = "open",
                                    ![EnumSession].connected = TRUE]
                /\ UNCHANGED <<enum_task, elog>>
        /\ UNCHANGED <<finalize, tracker_vars, gsh, op, fn, hist, oreq, auth_vars,
                       enumerate, last_run, max_user_timestamp,
                       max_group_timestamp>>

\* sdap_id_bind_done, then enum_users_connect_done / enum_groups_connect_done
EnumBindDone ==
    \E ret \in {EOK} \cup SubErrs, result \in AuthResults :
        /\ ecycle.pc = "binding"
        /\ LET rv == sdap_id_connect_recv(sdap_id_bind_done(ret, result)) IN
           /\ gsh' = IF rv.install THEN EnumSession ELSE gsh
           /\ sh' = [sh EXCEPT
                       ![EnumSession].bound =
                           (ret = EOK /\ result = "SDAP_AUTH_SUCCESS"),
                       ![EnumSession].installed = rv.install,
                       ![EnumSession].st = IF rv.install THEN "open" ELSE "freed"]
           /\ IF rv.ret # EOK
              THEN enum_fail
              ELSE /\ ecycle' = [ecycle EXCEPT !.pc = "searching",
                                               !.search = gsh']
                   /\ elog' = enum_count(elog, ecycle.phase, TRUE)
                   /\ UNCHANGED enum_task
        /\ UNCHANGED <<finalize, tracker_vars, op, fn, hist, oreq, auth_vars,
                       enumerate, last_run, max_user_timestamp,
                       max_group_timestamp>>

\* a callback that does not look at the users request's error
ldap_id_enum_users_done_blind(err) ==
    "groups"

\* ldap_id_enum_users_done: fail on an error of the users request, else
\* send the groups phase
ldap_id_enum_users_done(err) ==
    IF err # EOK THEN "fail" ELSE "groups"

\* enum_users_op_done, then ldap_id_enum_users_done: the users search came
\* back with ret and the highest stamp t of what it stored (0: none). On
\* success the watermark is replaced and the groups phase is sent
EnumUsersOpDone ==
    \E ret \in {EOK} \cup SubErrs, t \in Stamps :
        /\ ecycle.pc = "searching"
        /\ ecycle.phase = "users"
        /\ max_user_timestamp' = IF ret # EOK THEN max_user_timestamp
                                 ELSE enum_op_done(max_user_timestamp, t)
        /\ IF ldap_id_enum_users_done(ret) = "fail"
           THEN /\ enum_fail
                /\ UNCHANGED <<gsh, sh>>
           ELSE /\ enum_phase_send("groups",
                                   enum_groups_send(max_group_timestamp),
                                   ecycle.watchdog)
                /\ elog' = enum_count(
                               IF ret # EOK THEN [elog EXCEPT !.udone = "failed"]
                               ELSE [elog EXCEPT !.udone = "ok",
                                                 !.phase = "users", !.t = t,
                                                 !.old = max_user_timestamp],
                               "groups", connected)
                /\ UNCHANGED enum_task
        /\ UNCHANGED <<finalize, tracker_vars, op, fn, hist, oreq, auth_vars,
                       enumerate, last_run, max_group_timestamp>>

\* ldap_id_enum_groups_done after a good groups phase: it frees the request,
\* and with it the state it then reads ctx and last_run through. The read of
\* the freed block either still finds the old contents or stops the process
FreedStateReads == {"stale", "fault"}
ldap_id_enum_groups_done(read, lr) ==
    IF read = "stale"
    THEN [pc |-> "none", enum_task |-> ldap_id_enumerate_set_timer(lr)]
    ELSE [pc |-> "crashed", enum_task |-> NoTimer]

\* enum_groups_op_done, then ldap_id_enum_groups_done
EnumGroupsOpDone ==
    \E ret \in {EOK} \cup SubErrs, t \in Stamps, read \in FreedStateReads :
        /\ ecycle.pc = "searching"
        /\ ecycle.phase = "groups"
        /\ IF ret # EOK
           THEN /\ enum_fail
                /\ UNCHANGED max_group_timestamp
           ELSE LET d == ldap_id_enum_groups_done(read, last_run) IN
                /\ max_group_timestamp' = enum_op_done(max_group_timestamp, t)
                /\ ecycle' = [EcycleInit EXCEPT !.pc = d.pc]
                /\ enum_task' = d.enum_task
                /\ elog' = [elog EXCEPT !.phase = "groups", !.t = t,
                                        !.old = max_group_timestamp,
                                        !.result = IF d.pc = "none" THEN "ok"
                                                   ELSE "fault",
                                        !.ended = now]
        /\ UNCHANGED <<finalize, tracker_vars, gsh, sh, op, fn, hist, oreq, auth_vars,
                       enumerate, last_run, max_user_timestamp>>

\* a timeout handler that leaves the request and its sub-requests alive
enum_timeout_keep(c) ==
    [c EXCEPT !.watchdog = NoTimer]

\* talloc_zfree(req) in ldap_id_enumerate_timeout: the request goes away with
\* its watchdog and the sub-request of the phase in flight
enum_timeout_zfree(c) ==
    EcycleInit

\* ldap_id_enumerate_timeout: the watchdog fires while the cycle is in
\* flight; the next cycle is set from the current time and the request is
\* freed, with its sub-requests and a handle they had not yet installed
ldap_id_enumerate_timeout ==
    /\ ecycle.pc \in {"connecting", "binding", "searching"}
    /\ ecycle.watchdog # NoTimer
    /\ ecycle.watchdog <= now
    /\ enum_task' = ldap_id_enumerate_set_timer(now)
    /\ sh' = IF ecycle.pc = "searching" THEN sh
             ELSE [sh EXCEPT ![EnumSession].st = "freed"]
    /\ ecycle' = enum_timeout_zfree(ecycle)
    /\ elog' = [elog EXCEPT !.result = "timeout", !.ended = now]
    /\ UNCHANGED <<finalize, tracker_vars, gsh, op, fn, hist, oreq, auth_vars,
                   enumerate, last_run, max_user_timestamp,
                   max_group_timestamp>>

NextEnum ==
    \/ Enumerate
    \/ EnumConnectDone
    \/ EnumBindDone
    \/ EnumUsersOpDone
    \/ EnumGroupsOpDone
    \/ ldap_id_enumerate_timeout
    \/ Disconnect(EnumSession)
    \/ Tick

\* the identity provider after sssm_ldap_init, for either value of the
\* domain's enumerate option
InitEnum ==
    /\ AuthInit /\ AuthDefaults
    /\ now = 0
    /\ offline = FALSE
    /\ went_offline = 0
    /\ offline_timeout = MaxTimeout
    /\ IdInit
    /\ \E en \in BOOLEAN : EnumInit(en)

SpecEnum == InitEnum /\ [][NextEnum]_vars

\* the event loop lets the clock advance and runs every timer that is due;
\* a connect, bind or search may stay without an answer for ever
SpecEnumFair ==
    /\ SpecEnum
    /\ WF_vars(Tick)
    /\ WF_vars(Enumerate)
    /\ WF_vars(ldap_id_enumerate_timeout)

(* ------------------------------- shutdown ------------------------------ *)
\* a finalize handler that drops the provider's watermarks
sdap_shutdown_reset ==
    /\ finalize.calls = 0
    /\ finalize' = sdap_req_done(finalize, EOK, NULL)
    /\ max_user_timestamp' = 0
    /\ max_group_timestamp' = 0
    /\ UNCHANGED <<tracker_vars, gsh, sh, op, fn, hist, oreq, auth_vars,
                   enumerate, last_run, enum_task, ecycle, elog>>

\* the daemon calls the finalize handler of sdap_id_ops. sdap_shutdown(req)
\* is sdap_req_done(req, EOK, NULL) and nothing else ("TODO: Clean up any
\* internal data"): timers, the cycle in flight and ctx->gsh stay as they are
sdap_shutdown ==
    /\ finalize.calls = 0
    /\ finalize' = sdap_req_done(finalize, EOK, NULL)
    /\ UNCHANGED <<tracker_vars, gsh, sh, op, fn, hist, oreq, auth_vars,
                   enum_vars>>

NextShutdown ==
    \/ NextEnum
    \/ sdap_shutdown

\* the identity provider with its enumeration task, shut down at any moment
SpecShutdown == InitEnum /\ [][NextShutdown]_vars

\* the front-end hands over one account-info request for a user or a group,
\* with the core attributes, by name or with a filter type the lookups reject
SubmitLookup(r) ==
    /\ r = 1
    /\ Submit(r)
    /\ op'[r].ar.entry_type \in {"BE_REQ_USER", "BE_REQ_GROUP"}
    /\ op'[r].ar.filter_type # "BE_FILTER_IDNUM"
    /\ op'[r].ar.attr_type = "BE_ATTR_CORE"
    /\ op'[r].ar.filter_value = <<"a", "l">>

\* the three handlers of sdap_id_ops next to the enumeration task, on the
\* one ctx->gsh
NextProvider ==
    \/ \E r \in Reqs : SubmitLookup(r)
    \/ \E r \in Reqs : GetAccountInfo(r)
    \/ \E r \in Reqs : ConnectDone(r)
    \/ \E r \in Reqs : BindDone(r)
    \/ \E r \in Reqs : OpDone(r)
    \/ \E r \in Reqs : PostedDone(r)
    \/ sdap_check_online
    \/ NextShutdown

SpecProvider == InitEnum /\ [][NextProvider]_vars

(* --------------------------- the PAM pipeline -------------------------- *)
id_vars == <<offline, went_offline, gsh, sh, op, fn, hist, oreq, enum_vars,
            finalize>>

\* be_is_offline(be_ctx): offline and still inside the window
be_is_offline ==
    be_offline /\ now - be_went_offline < offline_timeout

\* be_req->fn(be_req, pam_status, NULL) in the daemon
be_req_fn(f, status) ==
    [calls |-> f.calls + 1, status |-> status]

\* a handler that tests the command before the offline state
krb5_pam_handler_cmd_first(off, cmd, ret) ==
    IF cmd # "SSS_PAM_AUTHENTICATE" /\ cmd # "SSS_PAM_CHAUTHTOK"
    THEN [done |-> TRUE, pam_status |-> PAM_SUCCESS]
    ELSE IF off THEN [done |-> TRUE, pam_status |-> PAM_AUTHINFO_UNAVAIL]
    ELSE IF ret # EOK THEN [done |-> TRUE, pam_status |-> PAM_SYSTEM_ERR]
    ELSE [done |-> FALSE, pam_status |-> PAM_SYSTEM_ERR]

\* a handler that leaves pam_status at its initial value for a command it
\* does not serve
krb5_pam_handler_status_unset(off, cmd, ret) ==
    IF off THEN [done |-> TRUE, pam_status |-> PAM_AUTHINFO_UNAVAIL]
    ELSE IF cmd # "SSS_PAM_AUTHENTICATE" /\ cmd # "SSS_PAM_CHAUTHTOK"
    THEN [done |-> TRUE, pam_status |-> PAM_SYSTEM_ERR]
    ELSE IF ret # EOK THEN [done |-> TRUE, pam_status |-> PAM_SYSTEM_ERR]
    ELSE [done |-> FALSE, pam_status |-> PAM_SYSTEM_ERR]

\* krb5_pam_handler up to the store lookup: finish at once with a status, or
\* wait for get_user_upn_done
krb5_pam_handler(off, cmd, ret) ==
    IF off THEN [done |-> TRUE, pam_status |-> PAM_AUTHINFO_UNAVAIL]
    ELSE IF cmd # "SSS_PAM_AUTHENTICATE" /\ cmd # "SSS_PAM_CHAUTHTOK"
    THEN [done |-> TRUE, pam_status |-> PAM_SUCCESS]
    ELSE IF ret # EOK THEN [done |-> TRUE, pam_status |-> PAM_SYSTEM_ERR]
    ELSE [done |-> FALSE, pam_status |-> PAM_SYSTEM_ERR]

\* the front-end hands PAM request p to the backend
PamHandler(p) ==
    /\ pam[p].pc = "idle"
    /\ \A q \in Pams : q < p => pam[q].pc # "idle"
    /\ \E cmd \in PamCmds, ret \in {EOK, EIO} :
        LET d == krb5_pam_handler(be_is_offline, cmd, ret) IN
        IF d.done
        THEN /\ pam' = [pam EXCEPT ![p].pc = "done", ![p].cmd = cmd,
                                   ![p].pam_status = d.pam_status]
             /\ pfn' = [pfn EXCEPT ![p] = be_req_fn(@, d.pam_status)]
        ELSE /\ pam' = [pam EXCEPT ![p].pc = "upn", ![p].cmd = cmd]
             /\ UNCHANGED pfn
    /\ UNCHANGED <<now, offline_timeout, id_vars, kr, be_offline, be_went_offline,
                   krb5_ctx, cache_credentials, fds, child>>

\* the switch of get_user_upn_done on res->count: pd->upn afterwards
get_user_upn(upn, count, attr, ctx) ==
    IF count = 1
    THEN IF attr = NULL /\ ctx.try_simple_upn /\ ctx.realm # NULL
         THEN <<pd_user, "@", ctx.realm>>
         ELSE attr
    ELSE upn

\* what the store handed to get_user_upn_done: an error, no row, several
\* rows, one row without a UPN attribute, or one row with it
lookup_kind(err, count, attr) ==
    IF err # "LDB_SUCCESS" THEN "error"
    ELSE IF count = 0 THEN "no_row"
    ELSE IF count > 1 THEN "many_rows"
    ELSE IF attr = NULL THEN "row_without_upn"
    ELSE "row_with_upn"

\* a callback that looks at the store's error only
get_user_upn_done_err_only(err, upn) ==
    IF err # "LDB_SUCCESS" THEN "failed" ELSE "child"

\* get_user_upn_done: go to failed: on a store error or a missing UPN,
\* else set up krb5 and start the helper child
get_user_upn_done(err, upn) ==
    IF err # "LDB_SUCCESS" THEN "failed"
    ELSE IF upn = NULL THEN "failed"
    ELSE "child"

\* fork_child and the write of handle_child_send, in the daemon: the pipe
\* ends it holds afterwards, whether a child exists, and whether
\* handle_child_send returns a request
SpawnOutcomes == {"pipe_from_fails", "pipe_to_fails", "fork_fails",
                  "write_fails", "write_short", "write_all"}
handle_child_send(out) ==
    CASE out = "pipe_from_fails" ->
           [req |-> FALSE, forked |-> FALSE, fds |-> FdsInit]
      [] out = "pipe_to_fails" ->
           [req |-> FALSE, forked |-> FALSE,
            fds |-> [FdsInit EXCEPT !.from_rd = "open", !.from_wr = "open"]]
      [] out = "fork_fails" ->
           [req |-> FALSE, forked |-> FALSE,
            fds |-> [from_rd |-> "open", from_wr |-> "open",
                     to_rd |-> "open", to_wr |-> "open"]]
      [] out = "write_fails" ->
           [req |-> FALSE, forked |-> TRUE,
            fds |-> [from_rd |-> "open", from_wr |-> "closed",
                     to_rd |-> "closed", to_wr |-> "closed"]]
      [] OTHER ->
           [req |-> TRUE, forked |-> TRUE,
            fds |-> [from_rd |-> "open", from_wr |-> "closed",
                     to_rd |-> "closed", to_wr |-> "closed"]]

\* the local store answers the UPN lookup of request p
GetUserUpnDone(p) ==
    /\ pam[p].pc = "upn"
    /\ \E err \in {"LDB_SUCCESS", "LDB_ERR_OPERATIONS_ERROR"},
          count \in 0..MaxRows, attr \in {NULL, <<"al@EXAMPLE.COM">>},
          out \in SpawnOutcomes :
        LET upn == IF err = "LDB_SUCCESS"
                   THEN get_user_upn(pam[p].upn, count, attr, krb5_ctx)
                   ELSE pam[p].upn
            kind == lookup_kind(err, count, attr)
            h == handle_child_send(out)
        IN
        IF get_user_upn_done(err, upn) = "failed"
        THEN /\ pam' = [pam EXCEPT ![p].pc = "done", ![p].upn = upn,
                                   ![p].lookup = kind,
                                   ![p].pam_status = PAM_SYSTEM_ERR]
             /\ pfn' = [pfn EXCEPT ![p] = be_req_fn(@, PAM_SYSTEM_ERR)]
             /\ UNCHANGED <<fds, child>>
        ELSE /\ fds' = [fds EXCEPT ![p] = h.fds]
             /\ child' = [child EXCEPT ![p].st =
                              IF h.forked THEN "forked" ELSE "none"]
             /\ IF h.req
                THEN /\ pam' = [pam EXCEPT ![p].pc = "reading", ![p].upn = upn,
                                           ![p].lookup = kind,
                                           ![p].spawn = out]
                     /\ UNCHANGED pfn
                ELSE /\ pam' = [pam EXCEPT ![p].pc = "done", ![p].upn = upn,
                                           ![p].lookup = kind,
                                           ![p].spawn = out,
                                           ![p].pam_status = PAM_SYSTEM_ERR]
                     /\ pfn' = [pfn EXCEPT ![p] = be_req_fn(@, PAM_SYSTEM_ERR)]
    /\ UNCHANGED <<now, offline_timeout, id_vars, kr, be_offline, be_went_offline,
                   krb5_ctx, cache_credentials>>

\* the pid == 0 branch of fork_child: the steps up to execl. A step that fails
\* makes fork_child return its errno in the child, handle_child_send return
\* NULL there, and get_user_upn_done go through its failed: label, which
\* calls be_req->fn in the child process
ChildSteps == {"chdir", "become_user", "dup2_stdin", "dup2_stdout", "execl"}
fork_child_in_child(c, failed) ==
    IF failed = NULL
    THEN [c EXCEPT !.st = "helper"]
    ELSE [st |-> "returned", calls |-> c.calls + 1, status |-> PAM_SYSTEM_ERR]

ChildRuns(p) ==
    /\ child[p].st = "forked"
    /\ \E failed \in ChildSteps \cup {NULL} :
        child' = [child EXCEPT ![p] = fork_child_in_child(@, failed)]
    /\ UNCHANGED <<now, offline_timeout, id_vars, kr, be_offline, be_went_offline,
                   krb5_ctx, cache_credentials, pam, fds, pfn>>

\* a child that returned into the daemon's code ends; its pipe ends close
ChildExits(p) ==
    /\ child[p].st = "returned"
    /\ child' = [child EXCEPT ![p].st = "exited"]
    /\ UNCHANGED <<now, offline_timeout, id_vars, kr, be_offline, be_went_offline,
                   krb5_ctx, cache_credentials, pam, fds, pfn>>

\* a completion that calls be_mark_offline for every reply but PAM_SUCCESS
krb5_pam_handler_done_mark_any(rp, cmd, ctx, cache) ==
    LET bad == [pam_status |-> PAM_SYSTEM_ERR, resp |-> <<>>,
                mark |-> FALSE, password |-> NULL]
        msg == <<[type |-> rp.type, len |-> rp.msg_len]>>
        env == IF rp.status = PAM_SUCCESS /\ cmd = "SSS_PAM_AUTHENTICATE"
               THEN << [type |-> PAM_ENV_ITEM,
                        data |-> <<SSSD_REALM, "=", ctx.realm>>],
                       [type |-> PAM_ENV_ITEM,
                        data |-> <<SSSD_KDC, "=", ctx.kdcip>>] >>
               ELSE <<>>
        pw == CASE cmd = "SSS_PAM_AUTHENTICATE" -> pd_authtok \o <<NUL>>
                [] cmd = "SSS_PAM_CHAUTHTOK" -> pd_newauthtok \o <<NUL>>
                [] OTHER -> NULL
    IN
    IF rp.len = -1 THEN bad
    ELSE IF rp.len < ReplyHeader THEN bad
    ELSE IF ReplyHeader + rp.msg_len # rp.len THEN bad
    ELSE IF rp.status # PAM_SUCCESS
    THEN [pam_status |-> rp.status, resp |-> msg, mark |-> TRUE,
          password |-> NULL]
    ELSE [pam_status |-> rp.status, resp |-> msg \o env, mark |-> FALSE,
          password |-> IF rp.status = PAM_SUCCESS /\ cache THEN pw ELSE NULL]

\* a completion that adds the environment items for every successful command
krb5_pam_handler_done_env_any(rp, cmd, ctx, cache) ==
    LET bad == [pam_status |-> PAM_SYSTEM_ERR, resp |-> <<>>,
                mark |-> FALSE, password |-> NULL]
        msg == <<[type |-> rp.type, len |-> rp.msg_len]>>
        env == IF rp.status = PAM_SUCCESS
               THEN << [type |-> PAM_ENV_ITEM,
                        data |-> <<SSSD_REALM, "=", ctx.realm>>],
                       [type |-> PAM_ENV_ITEM,
                        data |-> <<SSSD_KDC, "=", ctx.kdcip>>] >>
               ELSE <<>>
        pw == CASE cmd = "SSS_PAM_AUTHENTICATE" -> pd_authtok \o <<NUL>>
                [] cmd = "SSS_PAM_CHAUTHTOK" -> pd_newauthtok \o <<NUL>>
                [] OTHER -> NULL
    IN
    IF rp.len = -1 THEN bad
    ELSE IF rp.len < ReplyHeader THEN bad
    ELSE IF ReplyHeader + rp.msg_len # rp.len THEN bad
    ELSE IF rp.status = PAM_AUTHINFO_UNAVAIL
    THEN [pam_status |-> rp.status, resp |-> msg, mark |-> TRUE,
          password |-> NULL]
    ELSE [pam_status |-> rp.status, resp |-> msg \o env, mark |-> FALSE,
          password |-> IF rp.status = PAM_SUCCESS /\ cache THEN pw ELSE NULL]

\* a completion that takes the header of a reply without the test of msg_len
krb5_pam_handler_done_status_first(rp, cmd, ctx, cache) ==
    LET bad == [pam_status |-> PAM_SYSTEM_ERR, resp |-> <<>>,
                mark |-> FALSE, password |-> NULL]
        msg == <<[type |-> rp.type, len |-> rp.msg_len]>>
        env == IF rp.status = PAM_SUCCESS /\ cmd = "SSS_PAM_AUTHENTICATE"
               THEN << [type |-> PAM_ENV_ITEM,
                        data |-> <<SSSD_REALM, "=", ctx.realm>>],
                       [type |-> PAM_ENV_ITEM,
                        data |-> <<SSSD_KDC, "=", ctx.kdcip>>] >>
               ELSE <<>>
        pw == CASE cmd = "SSS_PAM_AUTHENTICATE" -> pd_authtok \o <<NUL>>
                [] cmd = "SSS_PAM_CHAUTHTOK" -> pd_newauthtok \o <<NUL>>
                [] OTHER -> NULL
    IN
    IF rp.len = -1 THEN bad
    ELSE IF rp.len < ReplyHeader THEN bad
    ELSE IF rp.status = PAM_AUTHINFO_UNAVAIL
    THEN [pam_status |-> rp.status, resp |-> msg, mark |-> TRUE,
          password |-> NULL]
    ELSE [pam_status |-> rp.status, resp |-> msg \o env, mark |-> FALSE,
          password |-> IF rp.status = PAM_SUCCESS /\ cache THEN pw ELSE NULL]

\* a completion that caches the password whatever cache_credentials says
krb5_pam_handler_done_cache_always(rp, cmd, ctx, cache) ==
    LET bad == [pam_status |-> PAM_SYSTEM_ERR, resp |-> <<>>,
                mark |-> FALSE, password |-> NULL]
        msg == <<[type |-> rp.type, len |-> rp.msg_len]>>
        env == IF rp.status = PAM_SUCCESS /\ cmd = "SSS_PAM_AUTHENTICATE"
               THEN << [type |-> PAM_ENV_ITEM,
                        data |-> <<SSSD_REALM, "=", ctx.realm>>],
                       [type |-> PAM_ENV_ITEM,
                        data |-> <<SSSD_KDC, "=", ctx.kdcip>>] >>
               ELSE <<>>
        pw == CASE cmd = "SSS_PAM_AUTHENTICATE" -> pd_authtok \o <<NUL>>
                [] cmd = "SSS_PAM_CHAUTHTOK" -> pd_newauthtok \o <<NUL>>
                [] OTHER -> NULL
    IN
    IF rp.len = -1 THEN bad
    ELSE IF rp.len < ReplyHeader THEN bad
    ELSE IF ReplyHeader + rp.msg_len # rp.len THEN bad
    ELSE IF rp.status = PAM_AUTHINFO_UNAVAIL
    THEN [pam_status |-> rp.status, resp |-> msg, mark |-> TRUE,
          password |-> NULL]
    ELSE [pam_status |-> rp.status, resp |-> msg \o env, mark |-> FALSE,
          password |-> IF rp.status = PAM_SUCCESS THEN pw ELSE NULL]

\* krb5_pam_handler_done after handle_child_recv: the status, the response
\* items added, whether be_mark_offline is called, and the password handed
\* to sysdb_cache_password_send (NULL: none, the callback is invoked here)
krb5_pam_handler_done(rp, cmd, ctx, cache) ==
    LET bad == [pam_status |-> PAM_SYSTEM_ERR, resp |-> <<>>,
                mark |-> FALSE, password |-> NULL]
        msg == <<[type |-> rp.type, len |-> rp.msg_len]>>
        env == IF rp.status = PAM_SUCCESS /\ cmd = "SSS_PAM_AUTHENTICATE"
               THEN << [type |-> PAM_ENV_ITEM,
                        data |-> <<SSSD_REALM, "=", ctx.realm>>],
                       [type |-> PAM_ENV_ITEM,
                        data |-> <<SSSD_KDC, "=", ctx.kdcip>>] >>
               ELSE <<>>
        pw == CASE cmd = "SSS_PAM_AUTHENTICATE" -> pd_authtok \o <<NUL>>
                [] cmd = "SSS_PAM_CHAUTHTOK" -> pd_newauthtok \o <<NUL>>
                [] OTHER -> NULL
    IN
    IF rp.len = -1 THEN bad
    ELSE IF rp.len < ReplyHeader THEN bad
    ELSE IF ReplyHeader + rp.msg_len # rp.len THEN bad
    ELSE IF rp.status = PAM_AUTHINFO_UNAVAIL
    THEN [pam_status |-> rp.status, resp |-> msg, mark |-> TRUE,
          password |-> NULL]
    ELSE [pam_status |-> rp.status, resp |-> msg \o env, mark |-> FALSE,
          password |-> IF rp.status = PAM_SUCCESS /\ cache THEN pw ELSE NULL]

\* read_pipe_done gets the helper's bytes, end-of-file or a read error;
\* handle_child_done and krb5_pam_handler_done run in the same step. (A
\* read that fails with EAGAIN or EINTR changes nothing.)
ReadPipeDone(p) ==
    /\ pam[p].pc = "reading"
    /\ child[p].st \in {"helper", "exited"}
    /\ \E rp \in Replies :
        LET d == krb5_pam_handler_done(rp, pam[p].cmd, krb5_ctx,
                                       cache_credentials)
        IN
        /\ child[p].st = "exited" => rp.len = 0
        /\ child' = [child EXCEPT ![p].st =
                         IF rp.len >= 0 THEN "exited" ELSE @]
        /\ fds' = [fds EXCEPT ![p].from_rd = "closed"]
        /\ be_offline' = IF d.mark THEN TRUE ELSE be_offline
        /\ be_went_offline' = IF d.mark THEN now ELSE be_went_offline
        /\ IF d.password # NULL
           THEN /\ pam' = [pam EXCEPT ![p].pc = "caching",
                                      ![p].pam_status = d.pam_status,
                                      ![p].resp = @ \o d.resp,
                                      ![p].password = d.password]
                /\ UNCHANGED pfn
           ELSE /\ pam' = [pam EXCEPT ![p].pc = "done",
                                      ![p].pam_status = d.pam_status,
                                      ![p].resp = @ \o d.resp]
                /\ pfn' = [pfn EXCEPT ![p] = be_req_fn(@, d.pam_status)]
    /\ UNCHANGED <<now, offline_timeout, id_vars, kr, krb5_ctx,
                   cache_credentials>>

\* a cache callback that reports a failed password write
krb5_pam_handler_cache_done_strict(f, ret) ==
    be_req_fn(f, IF ret = EOK THEN PAM_SUCCESS ELSE PAM_SYSTEM_ERR)

\* krb5_pam_handler_cache_done: the password write ended with ret
krb5_pam_handler_cache_done(f, ret) ==
    be_req_fn(f, PAM_SUCCESS)

CacheDone(p) ==
    /\ pam[p].pc = "caching"
    /\ \E ret \in {EOK, EIO} :
        /\ pfn' = [pfn EXCEPT ![p] = krb5_pam_handler_cache_done(@, ret)]
        /\ pam' = [pam EXCEPT ![p].pc = "done", ![p].cache_ret = ret]
    /\ UNCHANGED <<now, offline_timeout, id_vars, kr, be_offline, be_went_offline,
                   krb5_ctx, cache_credentials, fds, child>>

NextAuth ==
    \/ \E p \in Pams : PamHandler(p)
    \/ \E p \in Pams : GetUserUpnDone(p)
    \/ \E p \in Pams : ChildRuns(p)
    \/ \E p \in Pams : ChildExits(p)
    \/ \E p \in Pams : ReadPipeDone(p)
    \/ \E p \in Pams : CacheDone(p)
    \/ Tick

\* the auth backend under every configuration sssm_krb5_auth_init can load
InitAuth ==
    /\ AuthInit
    /\ krb5_ctx \in Krb5Configs
    /\ cache_credentials \in BOOLEAN
    /\ now = 0
    /\ offline = FALSE
    /\ went_offline = 0
    /\ offline_timeout = MaxTimeout
    /\ IdInit
    /\ EnumInit(FALSE)

SpecAuth == InitAuth /\ [][NextAuth]_vars

(* ------------------------- the helper's request ----------------------- *)
\* byte strings of up to n bytes drawn from the set b
ByteSeqs(b, n) ==
    UNION {[1..k -> b] : k \in 0..n}

\* pd->cmd as a number (the values of the PAM client protocol)
pam_cmd_code(cmd) ==
    CASE cmd = "SSS_PAM_AUTHENTICATE" -> 241
      [] cmd = "SSS_PAM_CHAUTHTOK" -> 246
      [] OTHER -> 243

\* a uint32_t in memory, low byte first
u32(n) ==
    <<n % 256, (n \div 256) % 256, (n \div 65536) % 256,
      (n \div 16777216) % 256>>

\* the uint32_t read from the four bytes of d at index i
rd32(d, i) ==
    d[i] + 256 * d[i + 1] + 65536 * d[i + 2] + 16777216 * d[i + 3]

\* ((uint32_t *)(&buf->data[rp]))[0] = v with rp not a multiple of 4 is
\* undefined: the build stores the value or the access faults
UnalignedStores == {"stored", "fault"}

\* create_send_buffer: buf->size and buf->data for the request kr->pd
create_send_buffer(cmd, upn, authtok, newauthtok, unaligned) ==
    LET chauthtok == cmd = "SSS_PAM_CHAUTHTOK"
        size == 3 * 4 + Len(upn) + Len(authtok)
                + (IF chauthtok THEN 4 + Len(newauthtok) ELSE 0)
        rp_authtok == 4 + 4 + Len(upn)
        rp_newauthtok == rp_authtok + 4 + Len(authtok)
        misaligned == IF rp_authtok % 4 # 0 THEN TRUE
                      ELSE chauthtok /\ rp_newauthtok % 4 # 0
    IN
    IF misaligned /\ unaligned = "fault"
    THEN [ret |-> "SIGBUS", size |-> size, data |-> <<>>]
    ELSE [ret |-> EOK, size |-> size,
          data |-> u32(pam_cmd_code(cmd)) \o u32(Len(upn)) \o upn
                   \o u32(Len(authtok)) \o authtok
                   \o (IF chauthtok
                       THEN u32(Len(newauthtok)) \o newauthtok
                       ELSE <<>>)]

\* handle_child_send builds the buffer for kr
CreateSendBuffer ==
    /\ kr.buf.ret = NULL
    /\ \E unaligned \in UnalignedStores :
          kr' = [kr EXCEPT !.buf = create_send_buffer(kr.cmd, kr.upn,
                                       kr.authtok, kr.newauthtok, unaligned)]
    /\ UNCHANGED <<now, offline_timeout, id_vars, be_offline, be_went_offline,
                   krb5_ctx, cache_credentials, pam, fds, child, pfn>>

NextBuffer ==
    CreateSendBuffer

\* every request get_user_upn_done can hand to handle_child_send: either
\* command, a upn of up to MaxUpn bytes, tokens of up to MaxTok bytes
InitBuffer ==
    /\ be_offline = FALSE
    /\ be_went_offline = 0
    /\ pam = [p \in Pams |-> PamInit]
    /\ fds = [p \in Pams |-> FdsInit]
    /\ child = [p \in Pams |-> ChildInit]
    /\ pfn = [p \in Pams |-> PfnInit]
    /\ AuthDefaults
    /\ kr \in [cmd : {"SSS_PAM_AUTHENTICATE", "SSS_PAM_CHAUTHTOK"},
                upn : ByteSeqs({97, 64}, MaxUpn),
                authtok : ByteSeqs({0, 120}, MaxTok),
                newauthtok : ByteSeqs({0, 121}, MaxTok),
                buf : {KrInit.buf}]
    /\ now = 0
    /\ offline = FALSE
    /\ went_offline = 0
    /\ offline_timeout = MaxTimeout
    /\ IdInit
    /\ EnumInit(FALSE)

SpecBuffer == InitBuffer /\ [][NextBuffer]_vars

(* ------------------------------ properties ----------------------------- *)
InFlight == {"connecting", "binding", "searching", "posted"}

\* C1: every account-info request gets its completion callback exactly once:
\* never twice, once exactly when its last sub-operation has finished, and a
\* request that waits at a suspension point can always be continued.
C1_ExactlyOnce ==
    \A r \in Reqs :
        /\ fn[r].calls <= 1
        /\ fn[r].calls = 1 <=> op[r].pc = "done"
        /\ op[r].pc \in InFlight =>
               ENABLED (ConnectDone(r) \/ BindDone(r) \/ OpDone(r) \/ PostedDone(r))

\* two requests completed, one at once and one after connect, bind and search
C1_Witness ==
    \E r, q \in Reqs :
        /\ fn[r].calls = 1 /\ hist[r].connects = 1 /\ hist[r].searches = 1
        /\ fn[q].calls = 1 /\ hist[q] = HistInit

\* C2: every PAM request gets be_req->fn exactly once, counting every
\* process that runs the daemon's request path: never twice, and once when
\* the pipeline has finished.
C2_PamExactlyOnce ==
    \A p \in Pams :
        /\ pfn[p].calls + child[p].calls <= 1
        /\ pam[p].pc = "done" => pfn[p].calls + child[p].calls = 1

\* the sessions that were installed in ctx->gsh and not released since
LiveInstalled == {s \in Reqs : sh[s].st = "open" /\ sh[s].installed}

\* C3: at most one installed directory session is alive at any instant.
C3_AtMostOneSession ==
    Cardinality(LiveInstalled) <= 1

\* C4: at most one connect+bind attempt is in flight at any instant.
C4_SingleConnect ==
    Cardinality({r \in Reqs : op[r].pc \in {"connecting", "binding"}}) <= 1

C6_OfflineShortCircuit ==
    [][\A r \in Reqs :
          (op[r].pc = "queued" /\ op'[r].pc # "queued" /\ is_offline) =>
              /\ op'[r].pc = "done"
              /\ fn'[r] = [calls |-> 1, ret |-> EAGAIN, err |-> "Offline"]
              /\ hist'[r] = HistInit
              /\ gsh' = gsh /\ sh' = sh]_vars

\* a request was short-circuited
C6_Witness ==
    \E r \in Reqs : fn[r] = [calls |-> 1, ret |-> EAGAIN, err |-> "Offline"]

\* C7 as stated: is_offline() is offline /\ (now - went_offline < timeout).
C7_StrictWindow ==
    is_offline = (offline /\ now - went_offline < offline_timeout)

\* C7 amended: is_offline() is offline /\ (now - went_offline <= timeout): at
\* now - went_offline = offline_timeout the tracker still reports offline.
C7_InclusiveWindow ==
    is_offline = (offline /\ now - went_offline <= offline_timeout)

\* check_online answered offline at the last second of the window
C7_Witness ==
    /\ offline /\ now - went_offline = offline_timeout
    /\ oreq = "MOD_OFFLINE"

TransportFailed(r) ==
    op[r].pc = "done" /\ hist[r].fail_at \in {"connect", "bind"}

\* C8: once a request failed in connect or bind, the backend is offline.
C8_MarksOffline ==
    \A r \in Reqs : TransportFailed(r) => is_offline

\* C9 as stated: a connect or bind failure is reported as EAGAIN.
C9_RetryLater ==
    \A r \in Reqs : TransportFailed(r) => fn[r].ret = EAGAIN

\* C9 amended: a connect or bind failure is reported with the errno of the
\* failed step, and with EACCES when the bind came back without an errno but
\* with a result other than success.
C9_OwnError ==
    \A r \in Reqs :
        TransportFailed(r) =>
            /\ fn[r].calls = 1
            /\ fn[r].ret = IF hist[r].sub_ret # EOK THEN hist[r].sub_ret ELSE EACCES
            /\ fn[r].err \in {"Enum Users Failed", "Enum Groups Failed",
                              "Init Groups Failed"}

\* a refused bind reported as EACCES and a failed connect as its errno
C9_Witness ==
    \E r, q \in Reqs :
        /\ hist[r].fail_at = "bind" /\ fn[r].ret = EACCES
        /\ hist[q].fail_at = "connect" /\ fn[q].ret = ETIMEDOUT

\* C10: the step in which a search fails after a good bind completes the
\* request with the search's errno and leaves the tracker's fields alone.
C10_SearchError ==
    [][\A r \in Reqs :
          (op[r].pc = "searching" /\ hist'[r].fail_at = "search") =>
              /\ op'[r].pc = "done"
              /\ fn'[r].calls = 1
              /\ fn'[r].ret = hist'[r].sub_ret
              /\ fn'[r].ret \in SubErrs
              /\ offline' = offline /\ went_offline' = went_offline]_vars

\* a group search failed after the request's own connect and bind
C10_Witness ==
    \E r \in Reqs :
        /\ hist[r].fail_at = "search" /\ hist[r].binds = 1
        /\ fn[r] = [calls |-> 1, ret |-> ETIMEDOUT, err |-> "Enum Groups Failed"]

EnumInFlight == {"connecting", "binding", "searching"}

\* C11: the user and the group watermark never move backward.
C11_WatermarksForward ==
    [][/\ max_user_timestamp' >= max_user_timestamp
       /\ max_group_timestamp' >= max_group_timestamp]_vars

\* C12: after a search that succeeded and reported stamp t the phase's
\* watermark is t, and after one that reported no stamp it is what it was.
C12_WatermarkIsReported ==
    /\ elog.phase = "users" =>
           max_user_timestamp = (IF elog.t # 0 THEN elog.t ELSE elog.old)
    /\ elog.phase = "groups" =>
           max_group_timestamp = (IF elog.t # 0 THEN elog.t ELSE elog.old)

\* a groups search on a set watermark reported no stamp, and one reported a
\* stamp for the users
C12_Witness ==
    /\ elog.phase = "groups" /\ elog.t = 0 /\ elog.old # 0
    /\ max_group_timestamp = elog.old
    /\ max_user_timestamp # 0

CycleFailed == elog.result \in {"users_failed", "groups_failed"}

\* C13 as stated: at the end of a cycle that failed in either phase both
\* watermarks are what they were when the cycle started.
C13_FailedCycleKeepsBoth ==
    CycleFailed =>
        /\ max_user_timestamp = elog.user_wm
        /\ max_group_timestamp = elog.group_wm

\* C13 amended: a failed phase leaves its own watermark alone. A cycle that
\* failed in the users phase ends with both watermarks as at its start; one
\* that failed in the groups phase ends with the group watermark as at its
\* start and the user watermark as its users phase set it.
C13_FailedPhaseKeepsOwn ==
    /\ elog.result = "users_failed" =>
           /\ max_user_timestamp = elog.user_wm
           /\ max_group_timestamp = elog.group_wm
    /\ elog.result = "groups_failed" =>
           /\ max_group_timestamp = elog.group_wm
           /\ elog.phase = "users" /\ elog.old = elog.user_wm
           /\ max_user_timestamp = (IF elog.t # 0 THEN elog.t ELSE elog.user_wm)

\* the users phase moved its watermark and the groups phase then failed
C13_Witness ==
    /\ elog.result = "groups_failed"
    /\ max_user_timestamp # elog.user_wm

\* C14: the groups phase of a cycle is sent only once the cycle's users
\* phase has succeeded, and a cycle whose users phase failed has ended
\* without a group search.
C14_UsersThenGroups ==
    /\ ecycle.phase = "groups" => elog.udone = "ok"
    /\ elog.gsearch > 0 => elog.udone = "ok"
    /\ ecycle.phase = "users" => elog.udone = NULL /\ elog.gsearch = 0
    /\ elog.udone = "failed" =>
           /\ ecycle.pc = "none" /\ elog.gsearch = 0
           /\ elog.result = "users_failed"

\* a groups search in flight after the cycle's users search, and an earlier
\* cycle behind it
C14_Witness ==
    /\ ecycle.phase = "groups" /\ ecycle.pc = "searching"
    /\ elog.usearch = 1 /\ elog.gsearch = 1 /\ elog.cycles = 2

\* C15: after a cycle whose two phases succeeded the next cycle is due at
\* last_run + enum_refresh_timeout; after a failed one at the time of the
\* failure + enum_refresh_timeout.
C15_NextCycleDue ==
    /\ elog.result \in {"ok", "fault"} =>
           enum_task = last_run + enum_refresh_timeout
    /\ CycleFailed => enum_task = elog.ended + enum_refresh_timeout

\* C16: a cycle in flight has its watchdog due enum_refresh_timeout after it
\* began; a watchdog that fired did so at or after that time, ended the
\* cycle and set the next one enum_refresh_timeout after the fire time; and
\* no watchdog is left once the cycle is over.
C16_Watchdog ==
    /\ ecycle.pc \in EnumInFlight =>
           ecycle.watchdog = last_run + enum_refresh_timeout
    /\ ecycle.pc \notin EnumInFlight => ecycle.watchdog = NoTimer
    /\ elog.result = "timeout" =>
           /\ ecycle.pc = "none"
           /\ elog.ended >= last_run + enum_refresh_timeout
           /\ enum_task = elog.ended + enum_refresh_timeout

\* the watchdog ended a cycle that was still searching
C16_Witness ==
    /\ elog.result = "timeout"
    /\ elog.usearch + elog.gsearch > 0

\* C17: without the enumerate option no timer is armed and no cycle or
\* search ever happens; with it the first cycle is due at the time of init.
C17_OnlyIfEnumerate ==
    /\ ~enumerate =>
           /\ enum_task = NoTimer
           /\ ecycle = EcycleInit
           /\ elog = ElogInit
    /\ (enumerate /\ elog.cycles = 0) =>
           /\ enum_task # NoTimer
           /\ enum_task = last_run
           /\ enum_task <= now

\* the clock ran out on a domain without enumeration
C17_Witness ==
    ~enumerate /\ now = MaxTime

\* the handler runs on request r in this step, with the tracker online
DispatchedOnline(r) ==
    op[r].pc = "queued" /\ op'[r].pc # "queued" /\ ~is_offline

\* request r is completed in this step with ret and msg, and nothing is sent
CompletedAtOnce(r, ret, msg) ==
    /\ op'[r].pc = "done"
    /\ fn'[r] = [calls |-> 1, ret |-> ret, err |-> msg]
    /\ hist'[r] = HistInit
    /\ gsh' = gsh /\ sh' = sh

\* C18: a USER or GROUP request for "*" handled while online completes in
\* that step with EOK and "Success" and starts no connect, bind or search,
\* whatever session ctx->gsh holds.
C18_WildcardNoOp ==
    [][\A r \in Reqs :
          (/\ DispatchedOnline(r)
           /\ op[r].ar.entry_type \in {"BE_REQ_USER", "BE_REQ_GROUP"}
           /\ op[r].ar.filter_value = <<"*">>) =>
              CompletedAtOnce(r, EOK, "Success")]_vars

\* a wildcard request answered while ctx->gsh held a session that had lost
\* its connection
C18_Witness ==
    \E r \in Reqs :
        /\ fn[r] = [calls |-> 1, ret |-> EOK, err |-> "Success"]
        /\ hist[r] = HistInit
        /\ gsh # 0 /\ ~sh[gsh].connected

\* C19: an INITGROUPS request handled while online is rejected with EINVAL
\* and nothing sent when its filter type is not NAME ("Invalid filter
\* type"), else when its attr type is not CORE ("Invalid attr type"), else
\* when its value holds a '*' ("Invalid filter value"), and otherwise starts
\* the initgroups operation; an unknown entry type is rejected with EINVAL
\* and "Invalid request type".
C19_InitgroupsValidation ==
    [][\A r \in Reqs :
          DispatchedOnline(r) =>
              LET ar == op[r].ar IN
              /\ ar.entry_type = "BE_REQ_INITGROUPS" =>
                   IF ar.filter_type # "BE_FILTER_NAME"
                   THEN CompletedAtOnce(r, EINVAL, "Invalid filter type")
                   ELSE IF ar.attr_type # "BE_ATTR_CORE"
                   THEN CompletedAtOnce(r, EINVAL, "Invalid attr type")
                   ELSE IF \E i \in 1..Len(ar.filter_value) :
                               ar.filter_value[i] = "*"
                   THEN CompletedAtOnce(r, EINVAL, "Invalid filter value")
                   ELSE /\ op'[r].pc \in {"connecting", "searching"}
                        /\ op'[r].kind = "initgr"
                        /\ hist'[r].connects + hist'[r].searches = 1
                        /\ fn'[r] = fn[r]
              /\ ar.entry_type = "BE_REQ_OTHER" =>
                   CompletedAtOnce(r, EINVAL, "Invalid request type")
              /\ op'[r].kind = "initgr" =>
                   ar.entry_type = "BE_REQ_INITGROUPS"]_vars

\* one request rejected for a '*' inside its value, another one's initgroups
\* operation under way
C19_Witness ==
    \E r, q \in Reqs :
        /\ fn[r] = [calls |-> 1, ret |-> EINVAL, err |-> "Invalid filter value"]
        /\ op[q].kind = "initgr" /\ op[q].pc \in {"connecting", "searching"}

\* C20: a PAM request handled while be_is_offline holds completes in that
\* step with PAM_AUTHINFO_UNAVAIL, whatever its command, without a UPN
\* lookup, a pipe or a child.
C20_PamOffline ==
    [][\A p \in Pams :
          (pam[p].pc = "idle" /\ pam'[p].pc # "idle" /\ be_is_offline) =>
              /\ pam'[p].pc = "done"
              /\ pam'[p].pam_status = PAM_AUTHINFO_UNAVAIL
              /\ pfn'[p] = [calls |-> 1, status |-> PAM_AUTHINFO_UNAVAIL]
              /\ pam'[p].upn = NULL
              /\ child' = child /\ fds' = fds]_vars

\* a request with a command the backend does not serve, refused as offline
C20_Witness ==
    \E p \in Pams :
        /\ pam[p].pc = "done" /\ pam[p].cmd = "SSS_PAM_ACCT_MGMT"
        /\ pfn[p] = [calls |-> 1, status |-> PAM_AUTHINFO_UNAVAIL]
        /\ child[p].st = "none"

\* C21: an online PAM request whose command is neither AUTHENTICATE nor
\* CHAUTHTOK completes at once with PAM_SUCCESS: pd->upn is never looked
\* up, no helper child and no pipe exist for it, no response item is added
\* and the offline state is left as it was
C21_OtherCommand ==
    [][\A p \in Pams :
          (/\ pam[p].pc = "idle" /\ pam'[p].pc # "idle"
           /\ ~be_is_offline
           /\ pam'[p].cmd \notin {"SSS_PAM_AUTHENTICATE", "SSS_PAM_CHAUTHTOK"})
          => /\ pam'[p].pc = "done"
             /\ pam'[p].pam_status = PAM_SUCCESS
             /\ pfn'[p] = [calls |-> 1, status |-> PAM_SUCCESS]
             /\ pam'[p].lookup = NULL /\ pam'[p].upn = NULL
             /\ pam'[p].resp = <<>>
             /\ child' = child /\ fds' = fds
             /\ child[p].st = "none" /\ fds[p] = FdsInit
             /\ be_offline' = be_offline
             /\ be_went_offline' = be_went_offline]_vars

\* an account-management request answered with PAM_SUCCESS while online
C21_Witness ==
    \E p \in Pams :
        /\ pam[p].pc = "done" /\ pam[p].cmd = "SSS_PAM_ACCT_MGMT"
        /\ pfn[p] = [calls |-> 1, status |-> PAM_SUCCESS]
        /\ pam[p].lookup = NULL /\ child[p].st = "none"

\* C22: with try_simple_upn enabled and a realm configured, every store
\* answer that leaves the UPN absent (no row, one row without the
\* attribute, several rows) yields upn = <user>@<realm> and the request
\* goes on to start the helper child
C22_SimpleUpnFallback ==
    \A p \in Pams :
        (/\ pam[p].lookup \in {"no_row", "row_without_upn", "many_rows"}
         /\ krb5_ctx.try_simple_upn /\ krb5_ctx.realm # NULL)
        => /\ pam[p].upn # NULL
           /\ pam[p].upn = <<pd_user, "@", krb5_ctx.realm>>
           /\ pam[p].spawn # NULL

\* C23: a helper child and its pipes exist only for a request whose upn is
\* present after a successful lookup; a request whose lookup failed or left
\* the upn absent is completed once with PAM_SYSTEM_ERR, with no child and
\* no pipe
C23_ChildNeedsUpn ==
    \A p \in Pams :
        /\ (child[p].st # "none" \/ fds[p] # FdsInit \/ pam[p].spawn # NULL)
           => (pam[p].upn # NULL /\ pam[p].lookup \notin {NULL, "error"})
        /\ (pam[p].lookup # NULL /\ (pam[p].lookup = "error" \/ pam[p].upn = NULL))
           => /\ pam[p].pc = "done"
              /\ pam[p].pam_status = PAM_SYSTEM_ERR
              /\ pfn[p] = [calls |-> 1, status |-> PAM_SYSTEM_ERR]
              /\ child[p].st = "none"
              /\ fds[p] = FdsInit
              /\ pam[p].spawn = NULL

\* a lookup that found no row: the request failed before any pipe or child
C23_Witness ==
    \E p \in Pams :
        /\ pam[p].lookup = "no_row" /\ pam[p].upn = NULL
        /\ pfn[p] = [calls |-> 1, status |-> PAM_SYSTEM_ERR]
        /\ child[p].st = "none" /\ fds[p] = FdsInit

\* C24: a helper reply with PAM_AUTHINFO_UNAVAIL marks the backend offline at
\* the current time and completes the request with that status, so that the
\* PAM offline check holds from then on inside the window and the next
\* request is refused at once; no other step changes the offline state
C24_UnavailMarksOffline ==
    [][/\ \A p \in Pams :
            (pam[p].pc = "reading" /\ pam'[p].pc # "reading"
             /\ pam'[p].pam_status = PAM_AUTHINFO_UNAVAIL)
            => /\ be_offline' /\ be_went_offline' = now
               /\ be_is_offline'
               /\ pam'[p].pc = "done"
               /\ pfn'[p] = [calls |-> 1, status |-> PAM_AUTHINFO_UNAVAIL]
       /\ (be_offline' # be_offline \/ be_went_offline' # be_went_offline)
            => \E p \in Pams :
                  /\ pam[p].pc = "reading"
                  /\ pam'[p].pam_status = PAM_AUTHINFO_UNAVAIL
       /\ \A p \in Pams :
            (pam[p].pc = "idle" /\ pam'[p].pc # "idle" /\ be_is_offline)
            => /\ pfn'[p] = [calls |-> 1, status |-> PAM_AUTHINFO_UNAVAIL]
               /\ pam'[p].lookup = NULL]_vars

\* the helper of one request reported the KDC unreachable, and the next
\* authentication request was refused without a lookup
C24_Witness ==
    \E p, q \in Pams :
        /\ p # q
        /\ pam[p].pc = "done" /\ pam[p].resp # <<>>
        /\ pam[p].pam_status = PAM_AUTHINFO_UNAVAIL
        /\ pam[q].pc = "done" /\ pam[q].cmd = "SSS_PAM_AUTHENTICATE"
        /\ pam[q].lookup = NULL /\ pam[q].resp = <<>>
        /\ pfn[q] = [calls |-> 1, status |-> PAM_AUTHINFO_UNAVAIL]

\* C25: the account-info offline check and the PAM offline check always
\* give the same answer
C25_SharedOfflineState ==
    be_is_offline <=> is_offline

\* C26: the password write is submitted while the request's callback has
\* not been invoked, exactly when the helper reported PAM_SUCCESS and
\* cache_credentials is set; the callback is invoked once when the write
\* ends, with PAM_SUCCESS whatever the write returned
C26_CacheThenComplete ==
    [][\A p \in Pams :
          /\ (pam[p].pc = "reading" /\ pam'[p].pc # "reading")
             => /\ (pam'[p].pc = "caching") <=>
                       (pam'[p].pam_status = PAM_SUCCESS /\ cache_credentials)
                /\ pam'[p].pc = "caching"
                      => (pfn'[p].calls = 0 /\ pam'[p].password # NULL)
          /\ pam[p].pc = "caching" => pfn[p].calls = 0
          /\ (pam[p].pc = "caching" /\ pam'[p].pc # "caching")
             => /\ pam'[p].pc = "done"
                /\ pam'[p].cache_ret # NULL
                /\ pfn'[p] = [calls |-> 1, status |-> PAM_SUCCESS]]_vars

\* a request reported as PAM_SUCCESS after its password write failed
C26_Witness ==
    \E p \in Pams :
        /\ pam[p].pc = "done" /\ pam[p].cache_ret = EIO
        /\ pfn[p] = [calls |-> 1, status |-> PAM_SUCCESS]

\* C27: when the helper's reply is taken, the response list is the helper's
\* message item followed, for PAM_SUCCESS on AUTHENTICATE only, by the two
\* environment items SSSD_REALM=<realm> and SSSD_KDC=<kdcip> in this order;
\* in every other case no environment item is in the list
C27_EnvItems ==
    [][\A p \in Pams :
          (pam[p].pc = "reading" /\ pam'[p].pc # "reading")
          => IF /\ pam'[p].pam_status = PAM_SUCCESS
                /\ pam[p].cmd = "SSS_PAM_AUTHENTICATE"
             THEN /\ Len(pam'[p].resp) = 3
                  /\ pam'[p].resp[1].type = PAM_USER_INFO
                  /\ pam'[p].resp[2] =
                       [type |-> PAM_ENV_ITEM,
                        data |-> <<SSSD_REALM, "=", krb5_ctx.realm>>]
                  /\ pam'[p].resp[3] =
                       [type |-> PAM_ENV_ITEM,
                        data |-> <<SSSD_KDC, "=", krb5_ctx.kdcip>>]
             ELSE \A i \in 1..Len(pam'[p].resp) :
                      pam'[p].resp[i].type # PAM_ENV_ITEM]_vars

\* a successful authentication with a configured realm and KDC
C27_Witness ==
    \E p \in Pams :
        /\ pam[p].pc = "done" /\ pam[p].cmd = "SSS_PAM_AUTHENTICATE"
        /\ pam[p].pam_status = PAM_SUCCESS
        /\ krb5_ctx.realm # NULL /\ krb5_ctx.kdcip # NULL
        /\ Len(pam[p].resp) = 3
        /\ pam[p].resp[2].data = <<SSSD_REALM, "=", krb5_ctx.realm>>
        /\ pam[p].resp[3].data = <<SSSD_KDC, "=", krb5_ctx.kdcip>>

\* C28: once the finalize request has been completed, no enumeration cycle
\* starts any more, no enumeration or watchdog timer is pending and ctx->gsh
\* holds no connected session
C28_ShutdownCleansUp ==
    [][finalize.calls > 0 =>
          /\ elog'.cycles = elog.cycles
          /\ enum_task = NoTimer /\ ecycle.watchdog = NoTimer
          /\ ~connected]_vars

\* C29: when the callback of a request that reached handle_child_send has
\* been invoked, the daemon holds no open end of the request's two pipes:
\* every end is closed or was never created
C29_PipesClosedAtCompletion ==
    \A p \in Pams :
        (pfn[p].calls > 0 /\ pam[p].spawn # NULL) =>
            /\ fds[p].from_rd # "open"
            /\ fds[p].to_wr # "open"
            /\ fds[p].from_wr # "open"
            /\ fds[p].to_rd # "open"

\* C30: the read on the from-child pipe is registered only after the whole
\* buffer was written and the write end closed, and a write of fewer bytes
\* than the buffer holds completes the request with PAM_SYSTEM_ERR without
\* a read
C30_WholeBufferBeforeRead ==
    [][\A p \in Pams :
          /\ (pam[p].pc = "upn" /\ pam'[p].pc = "reading")
             => /\ pam'[p].spawn = "write_all"
                /\ fds'[p].to_wr = "closed"
          /\ (pam[p].pc = "upn" /\ pam'[p].spawn = "write_short")
             => /\ pam'[p].pc = "done"
                /\ pfn'[p] = [calls |-> 1, status |-> PAM_SYSTEM_ERR]]_vars

\* C31: a step that fails in the forked child ends the child: the child
\* never returns into get_user_upn_done and never invokes the request's
\* callback
C31_ChildFailureIsFatal ==
    \A p \in Pams :
        /\ child[p].st # "returned"
        /\ child[p].calls = 0

\* a reply krb5_pam_handler_done has to reject: a read error, fewer bytes
\* than the header, or a msg_len that does not match the length
RejectedReply(rp) ==
    rp.len < ReplyHeader \/ ReplyHeader + rp.msg_len # rp.len

\* C32: every rejected reply (read error, len < 12, 12 + msg_len # len,
\* end-of-file and negative msg_len among them) gives PAM_SYSTEM_ERR, no
\* response item, no be_mark_offline and no password write, for every
\* status field, for every request that waits for its reply; and the
\* request whose read ended that way is completed once with PAM_SYSTEM_ERR
C32_RejectedReply ==
    /\ \A p \in Pams, rp \in Replies :
          pam[p].pc = "reading" =>
              IF RejectedReply(rp)
              THEN krb5_pam_handler_done(rp, pam[p].cmd, krb5_ctx,
                                         cache_credentials)
                       = [pam_status |-> PAM_SYSTEM_ERR, resp |-> <<>>,
                          mark |-> FALSE, password |-> NULL]
              ELSE krb5_pam_handler_done(rp, pam[p].cmd, krb5_ctx,
                                         cache_credentials)
                       .pam_status = rp.status
    /\ \A p \in Pams :
          (/\ pam[p].pc \in {"caching", "done"}
           /\ pam[p].spawn \in {"write_all", "write_short"}
           /\ pam[p].pam_status = PAM_SYSTEM_ERR)
          => /\ pam[p].pc = "done"
             /\ pfn[p] = [calls |-> 1, status |-> PAM_SYSTEM_ERR]
             /\ pam[p].resp = <<>>
             /\ pam[p].password = NULL
             /\ pam[p].cache_ret = NULL

\* a request whose read ended with a rejected reply while the domain caches
\* credentials
C32_Witness ==
    \E p \in Pams :
        /\ pam[p].pc = "done" /\ pam[p].spawn = "write_all"
        /\ fds[p].from_rd = "closed"
        /\ pam[p].pam_status = PAM_SYSTEM_ERR /\ pam[p].resp = <<>>
        /\ cache_credentials /\ ~be_offline

\* C40: a password is handed to the store only for a request whose helper
\* reply was taken with PAM_SUCCESS while cache_credentials is set; it is the
\* authtok for AUTHENTICATE and the newauthtok for CHAUTHTOK followed by one
\* zero byte; a request completed in any other way has no password write
C40_CacheOnlyOnSuccess ==
    \A p \in Pams :
        /\ pam[p].password # NULL =>
              /\ pam[p].pam_status = PAM_SUCCESS
              /\ cache_credentials
              /\ pam[p].resp # <<>>
              /\ pam[p].cmd = "SSS_PAM_AUTHENTICATE"
                    => pam[p].password = pd_authtok \o <<NUL>>
              /\ pam[p].cmd = "SSS_PAM_CHAUTHTOK"
                    => pam[p].password = pd_newauthtok \o <<NUL>>
              /\ pam[p].cmd \in {"SSS_PAM_AUTHENTICATE", "SSS_PAM_CHAUTHTOK"}
        /\ (pam[p].pc = "caching" \/ pam[p].cache_ret # NULL)
              => pam[p].password # NULL
        /\ (pam[p].pc = "done" /\ pam[p].spawn \in {"write_all", "write_short"}
            /\ pam[p].pam_status = PAM_SUCCESS /\ cache_credentials)
              => pam[p].cache_ret # NULL

\* a changed password handed to the store
C40_Witness ==
    \E p \in Pams :
        /\ pam[p].pc = "caching" /\ pam[p].cmd = "SSS_PAM_CHAUTHTOK"
        /\ pam[p].password = pd_newauthtok \o <<NUL>>

\* the filter f and attribute list a are the ones of an enumeration over
\* map with name slot nm, object-class slot oc, modstamp slot ms and
\* watermark wm
EnumFilterFor(f, a, map, nm, oc, ms, wm) ==
    /\ SubSeq(f, 1, 4) = <<"(&(", map_name(map, nm), "=*)(objectclass=",
                           map_name(map, oc)>>
    /\ a = build_attrs_from_map(map)
    /\ IF wm # 0
       THEN /\ Len(f) = 13
            /\ SubSeq(f, 5, 7) = <<")(", map_name(map, ms), ">=">>
            /\ f[8] = wm
            /\ SubSeq(f, 9, 11) = <<")(!(", map_name(map, ms), "=">>
            /\ f[12] = wm
            /\ f[13] = ")))"
       ELSE /\ Len(f) = 5
            /\ f[5] = "))"

\* C34: the filter of the phase in flight holds the clauses
\* (<modstamp>>=W) and (!(<modstamp>=W)) for the phase's own watermark W
\* when it is set and neither clause when it is unset; the users phase is
\* built from the user map and user watermark, the groups phase from the
\* group map and group watermark
C34_WatermarkFilter ==
    /\ ecycle.phase = "users" =>
          EnumFilterFor(ecycle.filter, ecycle.attrs, user_map,
                        "SDAP_AT_USER_NAME", "SDAP_OC_USER",
                        "SDAP_AT_USER_MODSTAMP", max_user_timestamp)
    /\ ecycle.phase = "groups" =>
          EnumFilterFor(ecycle.filter, ecycle.attrs, group_map,
                        "SDAP_AT_GROUP_NAME", "SDAP_OC_GROUP",
                        "SDAP_AT_GROUP_MODSTAMP", max_group_timestamp)

\* a groups phase with a group watermark that differs from the user
\* watermark, both set
C34_Witness ==
    /\ ecycle.phase = "groups"
    /\ max_group_timestamp # 0 /\ max_user_timestamp # 0
    /\ max_group_timestamp # max_user_timestamp
    /\ Len(ecycle.filter) = 13
    /\ ecycle.filter[8] = max_group_timestamp
    /\ ecycle.filter[12] = max_group_timestamp

\* attribute maps of up to MaxMap slots, each slot mapped to a name or not
AttrMaps ==
    UNION {[1..n -> [at : {"slot"}, name : {NULL, "a", "b"}]] : n \in 1..MaxMap}

\* the slots after the object-class slot that are mapped
MappedSlots(map) ==
    {i \in 2..Len(map) : map[i].name # NULL}

\* the list a is "objectClass" followed by the names of the mapped slots of
\* map after the first, in map order
AttrsOf(a, map) ==
    /\ Len(a) = 1 + Cardinality(MappedSlots(map))
    /\ a[1] = "objectClass"
    /\ \E f \in [2..Len(a) -> MappedSlots(map)] :
          /\ \A k \in 2..Len(a) : a[k] = map[f[k]].name
          /\ \A k, l \in 2..Len(a) : k < l => f[k] < f[l]

\* C35: for every attribute map, build_attrs_from_map gives "objectClass"
\* followed by exactly the non-null names of the slots after the
\* object-class slot, in map order; so do the lists of the requests sent
C35_AttrsFromMap ==
    /\ \A map \in AttrMaps \cup {user_map, group_map} :
          AttrsOf(build_attrs_from_map(map), map)
    /\ \A r \in Reqs :
          op[r].attrs # <<>> =>
              (AttrsOf(op[r].attrs, user_map) \/ AttrsOf(op[r].attrs, group_map))

\* a user lookup sent with the list of the user map, whose password slot is
\* unmapped
C35_Witness ==
    \E r \in Reqs :
        /\ op[r].attrs = <<"objectClass", "uid", "uidNumber", "modifyTimestamp">>
        /\ map_name(user_map, "SDAP_AT_USER_PWD") = NULL

\* C36: with enumerate set, in every state either the next-cycle timer is
\* pending and no cycle is in flight, or one cycle is in flight with its
\* watchdog armed and no next-cycle timer is pending, and never both
C36_TimerOrCycle ==
    enumerate =>
        ((enum_task # NoTimer /\ ecycle = EcycleInit)
         # (/\ ecycle.pc \in EnumInFlight
            /\ ecycle.watchdog # NoTimer
            /\ enum_task = NoTimer))

\* C37: with enumerate set, every cycle is followed by the start of another
\* one (or, at the end of the clock's range, by a next-cycle timer or a
\* watchdog that is due after it), however the cycle ends and even when
\* its connect, bind or search is never answered
C37_EnumerationGoesOn ==
    \A n \in 1..(MaxTime + 1) :
        (enumerate /\ elog.cycles = n)
            ~> (\/ elog.cycles > n
                \/ enum_task > MaxTime
                \/ ecycle.watchdog > MaxTime)

\* C38: from the firing of a cycle's watchdog until the next cycle starts,
\* no step changes a watermark, ctx->gsh or the next-cycle timer, and no
\* phase is started
C38_CancelledCycleIsInert ==
    [][(elog.result = "timeout" /\ elog'.cycles = elog.cycles) =>
          /\ max_user_timestamp' = max_user_timestamp
          /\ max_group_timestamp' = max_group_timestamp
          /\ gsh' = gsh
          /\ enum_task' = enum_task
          /\ ecycle' = EcycleInit
          /\ elog' = elog]_vars

\* time has passed since the watchdog cancelled a cycle whose search was in
\* flight on the installed session
C38_Witness ==
    /\ elog.result = "timeout" /\ elog.usearch + elog.gsearch > 0
    /\ now > elog.ended
    /\ gsh # 0
    /\ ecycle = EcycleInit
    /\ enum_task = elog.ended + enum_refresh_timeout

parse_send_buffer(d) ==
    LET bad == [ok |-> FALSE, cmd |-> 0, upn |-> <<>>, authtok |-> <<>>,
                newauthtok |-> <<>>, rest |-> <<>>]
    IN
    IF Len(d) < 8 THEN bad
    ELSE LET ulen == rd32(d, 5)
             a == 9 + ulen
         IN
         IF Len(d) < a + 3 THEN bad
         ELSE LET alen == rd32(d, a)
                  n == a + 4 + alen
              IN
              IF Len(d) < n - 1 THEN bad
              ELSE IF rd32(d, 1) # pam_cmd_code("SSS_PAM_CHAUTHTOK")
              THEN [ok |-> TRUE, cmd |-> rd32(d, 1),
                    upn |-> SubSeq(d, 9, a - 1),
                    authtok |-> SubSeq(d, a + 4, n - 1),
                    newauthtok |-> <<>>,
                    rest |-> SubSeq(d, n, Len(d))]
              ELSE IF Len(d) < n + 3 THEN bad
              ELSE LET nlen == rd32(d, n)
                       e == n + 4 + nlen
                   IN
                   IF Len(d) < e - 1 THEN bad
                   ELSE [ok |-> TRUE, cmd |-> rd32(d, 1),
                         upn |-> SubSeq(d, 9, a - 1),
                         authtok |-> SubSeq(d, a + 4, n - 1),
                         newauthtok |-> SubSeq(d, n + 4, e - 1),
                         rest |-> SubSeq(d, e, Len(d))]

====
